---- MODULE Spec2Model ----
(***************************************************************************)
(* Correlation Engine of Narratrace (src/correlation.ts): a batch of       *)
(* normalized events is grouped into Episodes, each Episode gets a type    *)
(* and a causal graph, and is handed to the Storage collaborator.          *)
(***************************************************************************)
EXTENDS Integers, Sequences, FiniteSets, TLC

(***************************************************************************)
(* Bounds of the model.                                                    *)
(***************************************************************************)
\* longest batch of the general family of batches
MaxBatch == 3
\* longest batch of the key-chain family of batches (grouping and merging)
MaxChain == 4
\* longest batch of the kinds family of batches
MaxKinds == 3
\* most requests the hosting service receives after the first
MaxCalls == 2

(***************************************************************************)
(* Values.  An optional string field that is missing reads as undefined.   *)
(***************************************************************************)
Absent == "<undefined>"

\* JavaScript truthiness of an optional string: undefined and "" are falsy
Truthy(v) == v # Absent /\ v # ""

\* `${v}` in a template literal
Interpolate(v) == IF v = Absent THEN "undefined" ELSE v

EventKind ==
    {"DEPLOYMENT", "FEATURE_FLAG", "MODEL_DECISION", "ACCESS_GRANT",
     "ACCESS_REVOKE", "INCIDENT", "PR_MERGED", "PR_OPENED", "PR_APPROVED",
     "CONFIG_CHANGE", "TRACE", "CUSTOM"}

EpisodeType ==
    {"DeploymentEpisode", "FlagEpisode", "AccessEpisode", "IncidentEpisode",
     "PRMergeEpisode", "CustomEpisode"}

EdgeType == {"CAUSES", "TRIGGERS", "RELATES_TO", "FOLLOWS"}

(***************************************************************************)
(* Time strings.  Every time of a batch has the one fixed format           *)
(* 2024-01-15T10:MM:SS.mmmZ; the model keeps its three varying fields      *)
(* <<MM, SS, mmm>>.  For strings of one fixed format of digits,            *)
(* localeCompare orders by the first field that differs.                   *)
(***************************************************************************)
\* the comparator with its operands swapped: b.time.localeCompare(a.time)
localeCompare_Swapped(a, b) ==
    IF a[1] # b[1] THEN (IF a[1] < b[1] THEN 1 ELSE -1)
    ELSE IF a[2] # b[2] THEN (IF a[2] < b[2] THEN 1 ELSE -1)
    ELSE IF a[3] # b[3] THEN (IF a[3] < b[3] THEN 1 ELSE -1)
    ELSE 0

localeCompare(a, b) ==
    IF a[1] # b[1] THEN (IF a[1] < b[1] THEN -1 ELSE 1)
    ELSE IF a[2] # b[2] THEN (IF a[2] < b[2] THEN -1 ELSE 1)
    ELSE IF a[3] # b[3] THEN (IF a[3] < b[3] THEN -1 ELSE 1)
    ELSE 0

\* new Date(time).getTime(), in milliseconds after 2024-01-15T10:00:00.000Z
getTime(t) == (t[1] * 60 + t[2]) * 1000 + t[3]

(***************************************************************************)
(* Array.prototype.sort with the comparator a.time.localeCompare(b.time):  *)
(* a stable sort, so events of equal time keep their order.                *)
(***************************************************************************)
RECURSIVE InsertByTime(_, _)
InsertByTime(sorted, e) ==
    IF sorted = <<>> THEN <<e>>
    ELSE IF localeCompare(sorted[Len(sorted)].time, e.time) <= 0
         THEN Append(sorted, e)
         ELSE Append(InsertByTime(SubSeq(sorted, 1, Len(sorted) - 1), e),
                     sorted[Len(sorted)])

\* the sort left out
SortByTime_Unsorted(events) == events

RECURSIVE SortByTime(_)
SortByTime(events) ==
    IF events = <<>> THEN <<>>
    ELSE InsertByTime(SortByTime(SubSeq(events, 1, Len(events) - 1)),
                      events[Len(events)])

(***************************************************************************)
(* Key Extractor                                                           *)
(***************************************************************************)
\* the key of commit_sha left out
getCorrelationKeys_NoCommit(event) ==
    (IF Truthy(event.deployment_id)
        THEN <<"deployment:" \o event.deployment_id>> ELSE <<>>)
    \o (IF Truthy(event.pr_number)
        THEN <<"pr:" \o Interpolate(event.instance) \o ":" \o event.pr_number>>
        ELSE <<>>)
    \o (IF Truthy(event.trace_id)
        THEN <<"trace:" \o event.trace_id>> ELSE <<>>)
    \o (IF Truthy(event.ticket_id)
        THEN <<"ticket:" \o event.ticket_id>> ELSE <<>>)

\* the key of pr_number without the source instance
getCorrelationKeys_NoInstance(event) ==
    (IF Truthy(event.deployment_id)
        THEN <<"deployment:" \o event.deployment_id>> ELSE <<>>)
    \o (IF Truthy(event.pr_number)
        THEN <<"pr:" \o event.pr_number>> ELSE <<>>)
    \o (IF Truthy(event.commit_sha)
        THEN <<"commit:" \o event.commit_sha>> ELSE <<>>)
    \o (IF Truthy(event.trace_id)
        THEN <<"trace:" \o event.trace_id>> ELSE <<>>)
    \o (IF Truthy(event.ticket_id)
        THEN <<"ticket:" \o event.ticket_id>> ELSE <<>>)

\* parent_event_id made a correlation key
getCorrelationKeys_WithParent(event) ==
    (IF Truthy(event.deployment_id)
        THEN <<"deployment:" \o event.deployment_id>> ELSE <<>>)
    \o (IF Truthy(event.pr_number)
        THEN <<"pr:" \o Interpolate(event.instance) \o ":" \o event.pr_number>>
        ELSE <<>>)
    \o (IF Truthy(event.commit_sha)
        THEN <<"commit:" \o event.commit_sha>> ELSE <<>>)
    \o (IF Truthy(event.trace_id)
        THEN <<"trace:" \o event.trace_id>> ELSE <<>>)
    \o (IF Truthy(event.ticket_id)
        THEN <<"ticket:" \o event.ticket_id>> ELSE <<>>)
    \o (IF Truthy(event.parent_event_id)
        THEN <<"parent:" \o event.parent_event_id>> ELSE <<>>)

getCorrelationKeys(event) ==
    (IF Truthy(event.deployment_id)
        THEN <<"deployment:" \o event.deployment_id>> ELSE <<>>)
    \o (IF Truthy(event.pr_number)
        THEN <<"pr:" \o Interpolate(event.instance) \o ":" \o event.pr_number>>
        ELSE <<>>)
    \o (IF Truthy(event.commit_sha)
        THEN <<"commit:" \o event.commit_sha>> ELSE <<>>)
    \o (IF Truthy(event.trace_id)
        THEN <<"trace:" \o event.trace_id>> ELSE <<>>)
    \o (IF Truthy(event.ticket_id)
        THEN <<"ticket:" \o event.ticket_id>> ELSE <<>>)

Range(s) == {s[i] : i \in DOMAIN s}

KeySet(event) == Range(getCorrelationKeys(event))

\* the keys of all events of a group (flatMap of getCorrelationKeys)
GroupKeys(events) == UNION {KeySet(events[i]) : i \in DOMAIN events}

(***************************************************************************)
(* Grouping Engine.  A Map of group key -> events is a sequence of         *)
(* records [key, events] in insertion order.                               *)
(***************************************************************************)
\* the indices of the groups that hold an event with correlation key k
GroupsWithKey(groups, k) ==
    {g \in DOMAIN groups : k \in GroupKeys(groups[g].events)}

Min(S) == CHOOSE x \in S : \A y \in S : x <= y

\* the first group taken whether or not it holds a key of the event
FindGroup_FirstGroup(groups, keys) ==
    IF groups = <<>> \/ keys = <<>> THEN 0 ELSE 1

\* the scan of the groups not left at the first group that holds the key
FindGroup_LastMatch(groups, keys) ==
    LET hits == {i \in DOMAIN keys : GroupsWithKey(groups, keys[i]) # {}}
        with == GroupsWithKey(groups, keys[Min(hits)])
    IN  IF hits = {} THEN 0
        ELSE CHOOSE g \in with : \A h \in with : h <= g

\* lines 56-71: the first key of the event, in key order, that an existing
\* group holds decides; among the groups that hold it, the first created
FindGroup(groups, keys) ==
    LET hits == {i \in DOMAIN keys : GroupsWithKey(groups, keys[i]) # {}}
    IN  IF hits = {} THEN 0
        ELSE Min(GroupsWithKey(groups, keys[Min(hits)]))

\* the index of the group with this key in the Map, 0 if there is none
IndexOfKey(groups, key) ==
    IF \E g \in DOMAIN groups : groups[g].key = key
    THEN CHOOSE g \in DOMAIN groups : groups[g].key = key
    ELSE 0

\* the fallback key of an event without keys not derived from its id
AssignSeed_SharedFallback(groups, event) ==
    LET keys == getCorrelationKeys(event)
        found == FindGroup(groups, keys)
        groupKey == IF found # 0 THEN groups[found].key
                    ELSE IF keys # <<>> /\ keys[1] # "" THEN keys[1]
                    ELSE "event:"
        at == IndexOfKey(groups, groupKey)
    IN  IF at = 0
        THEN Append(groups, [key |-> groupKey, events |-> <<event>>])
        ELSE [groups EXCEPT ![at].events = Append(@, event)]

\* lines 53-82: one iteration of the seed assignment loop
AssignSeed(groups, event) ==
    LET keys == getCorrelationKeys(event)
        found == FindGroup(groups, keys)
        groupKey == IF found # 0 THEN groups[found].key
                    ELSE IF keys # <<>> /\ keys[1] # "" THEN keys[1]
                    ELSE "event:" \o event.id
        at == IndexOfKey(groups, groupKey)
    IN  IF at = 0
        THEN Append(groups, [key |-> groupKey, events |-> <<event>>])
        ELSE [groups EXCEPT ![at].events = Append(@, event)]

RECURSIVE SeedGroups(_)
SeedGroups(events) ==
    IF events = <<>> THEN <<>>
    ELSE AssignSeed(SeedGroups(SubSeq(events, 1, Len(events) - 1)),
                    events[Len(events)])

\* only the keys of the first event of group1 compared
groupsAreRelated_FirstEvent(group1, group2) ==
    KeySet(group1[1]) \cap GroupKeys(group2) # {}

groupsAreRelated(group1, group2) ==
    GroupKeys(group1) \cap GroupKeys(group2) # {}

\* concatenation of the events of the groups at the indices of `idxs`,
\* in insertion order
RECURSIVE ConcatGroups(_, _, _)
ConcatGroups(groups, idxs, from) ==
    IF from > Len(groups) THEN <<>>
    ELSE (IF from \in idxs THEN groups[from].events ELSE <<>>)
         \o ConcatGroups(groups, idxs, from + 1)

\* the groups not yet merged that are related to one of the groups of `set`,
\* or to a group related to one of them, and so on
RECURSIVE RelatedClosure(_, _, _)
RelatedClosure(groups, set, processed) ==
    LET more == {o \in DOMAIN groups :
                    /\ o \notin set
                    /\ o \notin processed
                    /\ \E g \in set : groupsAreRelated(groups[g].events,
                                                        groups[o].events)}
    IN  IF more = {} THEN set
        ELSE RelatedClosure(groups, set \cup more, processed)

\* the merge run to a fixed point: a group is merged when it is related to
\* the events merged so far
RECURSIVE MergeFrom_FixedPoint(_, _, _)
MergeFrom_FixedPoint(groups, from, processed) ==
    IF from > Len(groups) THEN <<>>
    ELSE IF from \in processed
    THEN MergeFrom_FixedPoint(groups, from + 1, processed)
    ELSE LET others == RelatedClosure(groups, {from}, processed) \ {from}
             relatedEvents == groups[from].events
                              \o ConcatGroups(groups, others, 1)
         IN  <<[key |-> groups[from].key,
                events |-> SortByTime(relatedEvents)]>>
             \o MergeFrom_FixedPoint(groups, from + 1,
                                     processed \cup {from} \cup others)

\* the groups merged into an anchor not marked as processed
RECURSIVE MergeFrom_OthersNotProcessed(_, _, _)
MergeFrom_OthersNotProcessed(groups, from, processed) ==
    IF from > Len(groups) THEN <<>>
    ELSE IF from \in processed
    THEN MergeFrom_OthersNotProcessed(groups, from + 1, processed)
    ELSE LET others == {o \in DOMAIN groups :
                          /\ o # from
                          /\ o \notin processed
                          /\ groupsAreRelated(groups[from].events,
                                              groups[o].events)}
             relatedEvents == groups[from].events
                              \o ConcatGroups(groups, others, 1)
         IN  <<[key |-> groups[from].key,
                events |-> SortByTime(relatedEvents)]>>
             \o MergeFrom_OthersNotProcessed(groups, from + 1,
                                             processed \cup {from})

\* lines 112-139: the outer loop from group `from` on, `processed` being the
\* indices of the groups already merged
RECURSIVE MergeFrom(_, _, _)
MergeFrom(groups, from, processed) ==
    IF from > Len(groups) THEN <<>>
    ELSE IF from \in processed THEN MergeFrom(groups, from + 1, processed)
    ELSE LET others == {o \in DOMAIN groups :
                          /\ o # from
                          /\ o \notin processed
                          /\ groupsAreRelated(groups[from].events,
                                              groups[o].events)}
             relatedEvents == groups[from].events
                              \o ConcatGroups(groups, others, 1)
         IN  <<[key |-> groups[from].key,
                events |-> SortByTime(relatedEvents)]>>
             \o MergeFrom(groups, from + 1, processed \cup {from} \cup others)

mergeRelatedGroups(groups) == MergeFrom(groups, 1, {})

\* the groups of the events connected by shared keys, whatever the order
groupEvents_Connected(events) ==
    MergeFrom_FixedPoint(SeedGroups(events), 1, {})

groupEvents(events) == mergeRelatedGroups(SeedGroups(events))

(***************************************************************************)
(* Episode Type Classifier                                                 *)
(***************************************************************************)
\* the access kinds tested before DEPLOYMENT
determineEpisodeType_AccessFirst(events) ==
    LET kinds == {events[i].kind : i \in DOMAIN events}
    IN  IF "ACCESS_GRANT" \in kinds \/ "ACCESS_REVOKE" \in kinds
        THEN "AccessEpisode"
        ELSE IF "DEPLOYMENT" \in kinds THEN "DeploymentEpisode"
        ELSE IF "FEATURE_FLAG" \in kinds THEN "FlagEpisode"
        ELSE IF "INCIDENT" \in kinds THEN "IncidentEpisode"
        ELSE IF "PR_MERGED" \in kinds THEN "PRMergeEpisode"
        ELSE "CustomEpisode"

determineEpisodeType(events) ==
    LET kinds == {events[i].kind : i \in DOMAIN events}
    IN  IF "DEPLOYMENT" \in kinds THEN "DeploymentEpisode"
        ELSE IF "FEATURE_FLAG" \in kinds THEN "FlagEpisode"
        ELSE IF "ACCESS_GRANT" \in kinds \/ "ACCESS_REVOKE" \in kinds
             THEN "AccessEpisode"
        ELSE IF "INCIDENT" \in kinds THEN "IncidentEpisode"
        ELSE IF "PR_MERGED" \in kinds THEN "PRMergeEpisode"
        ELSE "CustomEpisode"

(***************************************************************************)
(* Causal Graph Builder                                                    *)
(***************************************************************************)
\* kind.startsWith('PR_') over the closed enum of kinds
StartsWithPR(kind) == kind \in {"PR_MERGED", "PR_OPENED", "PR_APPROVED"}

NoEdge == "null"

FiveMinutes == 5 * 60 * 1000

\* line 292 with <= in place of <
CloseInTime_Inclusive(earlier, later) ==
    getTime(later.time) - getTime(earlier.time) <= FiveMinutes

\* lines 291-292: timeDiff < 5 * 60 * 1000
CloseInTime(earlier, later) ==
    getTime(later.time) - getTime(earlier.time) < FiveMinutes

\* the rules of the same trace_id and the same deployment_id tested first
inferRelationship_RelatesFirst(earlier, later) ==
    IF Truthy(earlier.trace_id) /\ earlier.trace_id = later.trace_id
    THEN "RELATES_TO"
    ELSE IF /\ Truthy(earlier.deployment_id)
            /\ earlier.deployment_id = later.deployment_id
    THEN "RELATES_TO"
    ELSE IF /\ earlier.kind = "PR_MERGED" /\ later.kind = "DEPLOYMENT"
            /\ earlier.commit_sha = later.commit_sha
    THEN "CAUSES"
    ELSE IF /\ earlier.kind = "DEPLOYMENT" /\ later.kind = "TRACE"
            /\ earlier.deployment_id = later.deployment_id
    THEN "TRIGGERS"
    ELSE IF earlier.kind = "FEATURE_FLAG" /\ later.kind = "TRACE"
    THEN "TRIGGERS"
    ELSE IF /\ StartsWithPR(earlier.kind) /\ StartsWithPR(later.kind)
            /\ earlier.pr_number = later.pr_number
    THEN "FOLLOWS"
    ELSE IF CloseInTime(earlier, later) /\ earlier.target = later.target
    THEN "FOLLOWS"
    ELSE NoEdge

inferRelationship(earlier, later) ==
    IF /\ earlier.kind = "PR_MERGED" /\ later.kind = "DEPLOYMENT"
       /\ earlier.commit_sha = later.commit_sha
    THEN "CAUSES"
    ELSE IF /\ earlier.kind = "DEPLOYMENT" /\ later.kind = "TRACE"
            /\ earlier.deployment_id = later.deployment_id
    THEN "TRIGGERS"
    ELSE IF earlier.kind = "FEATURE_FLAG" /\ later.kind = "TRACE"
    THEN "TRIGGERS"
    ELSE IF /\ StartsWithPR(earlier.kind) /\ StartsWithPR(later.kind)
            /\ earlier.pr_number = later.pr_number
    THEN "FOLLOWS"
    ELSE IF Truthy(earlier.trace_id) /\ earlier.trace_id = later.trace_id
    THEN "RELATES_TO"
    ELSE IF /\ Truthy(earlier.deployment_id)
            /\ earlier.deployment_id = later.deployment_id
    THEN "RELATES_TO"
    ELSE IF CloseInTime(earlier, later) /\ earlier.target = later.target
    THEN "FOLLOWS"
    ELSE NoEdge

\* the edges pushed from the later event to the earlier one
RECURSIVE EdgesFrom_Backward(_, _, _)
EdgesFrom_Backward(events, i, j) ==
    IF j > Len(events) THEN <<>>
    ELSE LET relationship == inferRelationship(events[i], events[j])
         IN  (IF relationship # NoEdge
              THEN <<[from |-> events[j].id, to |-> events[i].id,
                      type |-> relationship]>>
              ELSE <<>>)
             \o EdgesFrom_Backward(events, i, j + 1)

\* lines 228-239: the inner loop for events[i], from events[j] on
RECURSIVE EdgesFrom(_, _, _)
EdgesFrom(events, i, j) ==
    IF j > Len(events) THEN <<>>
    ELSE LET relationship == inferRelationship(events[i], events[j])
         IN  (IF relationship # NoEdge
              THEN <<[from |-> events[i].id, to |-> events[j].id,
                      type |-> relationship]>>
              ELSE <<>>)
             \o EdgesFrom(events, i, j + 1)

\* the inner loop started at j = i
RECURSIVE EdgesOf_FromSelf(_, _)
EdgesOf_FromSelf(events, i) ==
    IF i > Len(events) THEN <<>>
    ELSE EdgesFrom(events, i, i) \o EdgesOf_FromSelf(events, i + 1)

\* lines 224-240: the outer loop from events[i] on
RECURSIVE EdgesOf(_, _)
EdgesOf(events, i) ==
    IF i > Len(events) THEN <<>>
    ELSE EdgesFrom(events, i, i + 1) \o EdgesOf(events, i + 1)

\* the nodes taken from the ends of the edges
buildCausalGraph_NodesOfEdges(events) ==
    LET edges == EdgesOf(events, 1)
        ids == [i \in DOMAIN events |-> events[i].id]
        Linked(id) == \E x \in Range(edges) : x.from = id \/ x.to = id
    IN  [nodes |-> SelectSeq(ids, Linked), edges |-> edges]

buildCausalGraph(events) ==
    [nodes |-> [i \in DOMAIN events |-> events[i].id],
     edges |-> EdgesOf(events, 1)]

(***************************************************************************)
(* Episode Assembler                                                       *)
(***************************************************************************)
\* among the ids of the highest count the one met last taken
MostCommon_LastOfTies(ids) ==
    IF ids = <<>> THEN Absent
    ELSE LET Count(v) == Cardinality({i \in DOMAIN ids : ids[i] = v})
             First(v) == Min({i \in DOMAIN ids : ids[i] = v})
             best == CHOOSE i \in DOMAIN ids :
                        /\ First(ids[i]) = i
                        /\ \A j \in DOMAIN ids :
                              \/ Count(ids[j]) < Count(ids[i])
                              \/ /\ Count(ids[j]) = Count(ids[i])
                                 /\ First(ids[j]) <= i
         IN  ids[best]

\* lines 177-188: the ids are counted in a Map (insertion order), the entries
\* sorted by descending count (a stable sort), and the first one taken
MostCommon(ids) ==
    IF ids = <<>> THEN Absent
    ELSE LET Count(v) == Cardinality({i \in DOMAIN ids : ids[i] = v})
             First(v) == Min({i \in DOMAIN ids : ids[i] = v})
             best == CHOOSE i \in DOMAIN ids :
                        /\ First(ids[i]) = i
                        /\ \A j \in DOMAIN ids :
                              \/ Count(ids[j]) < Count(ids[i])
                              \/ /\ Count(ids[j]) = Count(ids[i])
                                 /\ First(ids[j]) >= i
         IN  ids[best]

createEpisode(events, type, id) ==
    LET sortedEvents == SortByTime(events)
        graph == buildCausalGraph(sortedEvents)
    IN  [id |-> id,
         type |-> type,
         start_time |-> sortedEvents[1].time,
         end_time |-> sortedEvents[Len(sortedEvents)].time,
         primary_actor |-> MostCommon([i \in DOMAIN events |-> events[i].actor]),
         primary_target |-> MostCommon([i \in DOMAIN events |-> events[i].target]),
         events |-> [i \in DOMAIN sortedEvents |-> sortedEvents[i].id],
         graph |-> graph]

\* generateId(): a fresh identifier on every call
generateId(n) == "episode-" \o ToString(n)

(***************************************************************************)
(* Narrative Engine (src/unnamed/part_001).  Of a Narrative the model      *)
(* keeps episode_id, why and citations.  An entry of `why` is the template *)
(* of the sentence and the value written into it.                          *)
(***************************************************************************)
Reason(template, value) == [template |-> template, value |-> value]

\* reason.includes(word), for the sentences of the templates; no value the
\* model writes into a sentence has the word PR or rollout in it
Includes(reason, word) ==
    \/ word = "PR" /\ reason.template \in {"deployment-pr", "pr-approved"}
    \/ word = "rollout" /\ reason.template = "deployment-rollout"

Citation(i, event) ==
    [claim_id |-> "why-" \o ToString(i), event_id |-> event.id,
     event_hash |-> event.evidence]

\* events.slice(0, n)
Slice(events, n) ==
    SubSeq(events, 1, IF n < Len(events) THEN n ELSE Len(events))

\* events.slice(0, n).map((e, i) => citation why-(i+1) of e)
CiteFirst(events, n) ==
    [i \in DOMAIN Slice(events, n) |-> Citation(i, events[i])]

HasKind(events, kind) == \E i \in DOMAIN events : events[i].kind = kind

\* events.find(e => e.kind === kind), the index of it
FindKind(events, kind) ==
    Min({i \in DOMAIN events : events[i].kind = kind})

\* DeploymentNarrativeGenerator.buildWhy
DeploymentWhy(events) ==
    LET reasons ==
            (IF HasKind(events, "PR_MERGED")
             THEN <<Reason("deployment-pr",
                           Interpolate(events[FindKind(events, "PR_MERGED")]
                                          .pr_number))>>
             ELSE <<>>)
            \o (IF HasKind(events, "DEPLOYMENT")
                THEN <<Reason("deployment-rollout", Absent)>> ELSE <<>>)
    IN  IF reasons = <<>> THEN <<Reason("deployment-standard", Absent)>>
        ELSE reasons

\* DeploymentNarrativeGenerator.buildCitations: the reasons from the i-th on
RECURSIVE DeploymentCitations(_, _, _)
DeploymentCitations(events, whyReasons, i) ==
    IF i > Len(whyReasons) THEN <<>>
    ELSE LET relevant == {n \in DOMAIN events :
                \/ /\ Includes(whyReasons[i], "PR")
                   /\ events[n].kind = "PR_MERGED"
                \/ /\ Includes(whyReasons[i], "rollout")
                   /\ events[n].kind = "DEPLOYMENT"}
         IN  (IF relevant # {} THEN <<Citation(i, events[Min(relevant)])>>
              ELSE <<>>)
             \o DeploymentCitations(events, whyReasons, i + 1)

\* FlagNarrativeGenerator.buildWhy: the reasons of the events from the
\* i-th on
RECURSIVE FlagReasons(_, _)
FlagReasons(events, i) ==
    IF i > Len(events) THEN <<>>
    ELSE (IF Truthy(events[i].comment)
          THEN <<Reason("flag-comment", events[i].comment)>> ELSE <<>>)
         \o (IF Truthy(events[i].ticket_id)
             THEN <<Reason("flag-ticket", events[i].ticket_id)>> ELSE <<>>)
         \o FlagReasons(events, i + 1)

FlagWhy(events) ==
    IF FlagReasons(events, 1) = <<>> THEN <<Reason("flag-none", Absent)>>
    ELSE FlagReasons(events, 1)

\* PRMergeNarrativeGenerator.buildWhy
PRMergeWhy(events) ==
    LET reasons ==
            (IF HasKind(events, "PR_APPROVED")
             THEN <<Reason("pr-approved",
                           events[FindKind(events, "PR_APPROVED")].actor)>>
             ELSE <<>>)
            \o (IF HasKind(events, "PR_MERGED")
                THEN <<Reason("pr-requirements", Absent)>> ELSE <<>>)
    IN  IF reasons = <<>> THEN <<Reason("pr-standard", Absent)>> ELSE reasons

\* getGenerator(episode.type) and generator.generate(episode, events)
generate(episode, events) ==
    LET why ==
            CASE episode.type = "DeploymentEpisode" -> DeploymentWhy(events)
              [] episode.type = "FlagEpisode" -> FlagWhy(events)
              [] episode.type = "AccessEpisode" ->
                    <<Reason("access-standard", Absent)>>
              [] episode.type = "IncidentEpisode" ->
                    <<Reason("incident-detected", Absent)>>
              [] episode.type = "PRMergeEpisode" -> PRMergeWhy(events)
              [] OTHER -> <<Reason("generic", Absent)>>
        citations ==
            CASE episode.type = "DeploymentEpisode" ->
                    DeploymentCitations(events, why, 1)
              [] episode.type \in {"FlagEpisode", "PRMergeEpisode"} ->
                    CiteFirst(events, Len(why))
              [] OTHER -> CiteFirst(events, 1)
    IN  [episode_id |-> episode.id, why |-> why, citations |-> citations]

\* Storage.getEpisodeEvents(episode.id): the saved events that are the
\* events of the Episode, in the order of Episode.events
getEpisodeEvents(saved, episode) ==
    [n \in DOMAIN episode.events |->
        saved[CHOOSE i \in DOMAIN saved : saved[i].id = episode.events[n]]]

\* NarrativeEngine.generateNarrative(episode)
generateNarrative(saved, episode) ==
    generate(episode, getEpisodeEvents(saved, episode))

(***************************************************************************)
(* GitHub Adapter (src/github.ts).  An optional object of a payload is a   *)
(* sequence of at most one record, an optional time a time or <<>>.        *)
(***************************************************************************)
\* extractActor(user).id, the user given by its login
extractActor(user) == IF Truthy(user) THEN user ELSE "unknown"

\* extractRepoTarget(repo).id, the repository given by its full_name
extractRepoTarget(repo) == IF repo = Absent THEN "unknown" ELSE repo

\* a closed pull request fails whether or not it was merged
determineOutcome_ClosedFails(action, pr) ==
    IF action = "closed" THEN "FAILURE" ELSE "SUCCESS"

\* lines 201-206
determineOutcome(action, pr) ==
    IF action = "closed"
    THEN (IF pr.merged THEN "SUCCESS" ELSE "FAILURE")
    ELSE "SUCCESS"

\* lines 39-53: the kind of the event of a pull request
PRKind(action, pr) ==
    CASE action = "opened" -> "PR_OPENED"
      [] action = "closed" -> (IF pr.merged THEN "PR_MERGED" ELSE "CUSTOM")
      [] action \in {"approved", "review_requested"} -> "PR_APPROVED"
      [] OTHER -> "CUSTOM"

\* lines 35-91
normalizePREvent(data, now) ==
    LET pr == data.pull_request[1]
    IN  <<[id |-> Absent,
           time |-> IF pr.updated_at # <<>> THEN pr.updated_at ELSE now,
           instance |-> data.repository,
           kind |-> PRKind(data.action, pr),
           actor |-> extractActor(data.sender),
           target |-> extractRepoTarget(data.repository),
           deployment_id |-> Absent,
           pr_number |-> ToString(pr.number),
           commit_sha |-> IF Truthy(pr.merge_commit_sha)
                          THEN pr.merge_commit_sha ELSE pr.head_sha,
           trace_id |-> Absent, ticket_id |-> Absent,
           parent_event_id |-> Absent,
           action |-> "pull_request." \o data.action,
           outcome |-> determineOutcome(data.action, pr),
           attributes |-> "pull_request", comment |-> Absent,
           evidence |-> "github:pr:" \o Interpolate(data.repository) \o ":"
                           \o ToString(pr.number)]>>

\* lines 93-133
normalizeDeploymentEvent(data, now) ==
    LET deployment == data.deployment[1]
    IN  <<[id |-> Absent,
           time |-> IF deployment.created_at # <<>>
                    THEN deployment.created_at ELSE now,
           instance |-> data.repository,
           kind |-> "DEPLOYMENT",
           actor |-> extractActor(data.sender),
           target |-> extractRepoTarget(data.repository),
           deployment_id |-> ToString(deployment.id),
           pr_number |-> Absent,
           commit_sha |-> deployment.sha,
           trace_id |-> Absent, ticket_id |-> Absent,
           parent_event_id |-> Absent,
           action |-> "deployment.created",
           outcome |-> "PENDING",
           attributes |-> "deployment", comment |-> Absent,
           evidence |-> "github:deployment:" \o Interpolate(data.repository)
                           \o ":" \o ToString(deployment.id)]>>

\* lines 135-177: one event for each commit of a push
normalizePushEvent(data, now) ==
    LET commits == data.commits[1]
    IN  [i \in DOMAIN commits |->
            [id |-> Absent,
             time |-> IF commits[i].timestamp # <<>>
                      THEN commits[i].timestamp ELSE now,
             instance |-> data.repository,
             kind |-> "CUSTOM",
             actor |-> IF commits[i].author # Absent
                       THEN extractActor(commits[i].author)
                       ELSE extractActor(data.pusher),
             target |-> extractRepoTarget(data.repository),
             deployment_id |-> Absent, pr_number |-> Absent,
             commit_sha |-> commits[i].id,
             trace_id |-> Absent, ticket_id |-> Absent,
             parent_event_id |-> Absent,
             action |-> "push.commit",
             outcome |-> "SUCCESS",
             attributes |-> "commit", comment |-> Absent,
             evidence |-> "github:commit:" \o Interpolate(data.repository)
                             \o ":" \o commits[i].id]]

\* lines 13-27: the payload is routed by the properties it has; the events
\* have no id yet
normalize(data, now) ==
    IF data.pull_request # <<>> /\ Truthy(data.action)
    THEN normalizePREvent(data, now)
    ELSE IF data.deployment # <<>>
    THEN normalizeDeploymentEvent(data, now)
    ELSE IF data.pusher # Absent /\ data.commits # <<>>
    THEN normalizePushEvent(data, now)
    ELSE <<>>

(***************************************************************************)
(* State.                                                                  *)
(*   batch       the events passed to correlate()                          *)
(*   pc          where the call is: "idle" before it, "loop" at the head   *)
(*               of the for loop, "done" once it has returned, "failed"    *)
(*               once it has rejected                                      *)
(*   eventGroups the Map groupEvents returned                              *)
(*   pos         the index of the entry of eventGroups the loop is at      *)
(*   newEpisodes the local list of the Episodes created so far             *)
(*   returned    the value the call resolved to                            *)
(*   stored      the Episodes the Storage collaborator holds, in the order *)
(*               they were saved                                           *)
(*   nextId      the number of identifiers generateId has handed out       *)
(*   savedEvents the events the Storage collaborator holds, in the order   *)
(*               they were saved                                           *)
(*   pending     the requests the hosting service has yet to receive       *)
(*   calls       the calls made for the requests received after the first: *)
(*               of each its operation, batch, pc ("ready" before          *)
(*               correlate() is entered), eventGroups, pos, newEpisodes    *)
(*               and returned                                              *)
(*   narratives  the Narratives the Storage collaborator holds             *)
(*   blobs       the raw_refs of the raw payloads the Storage collaborator *)
(*               holds                                                     *)
(***************************************************************************)
VARIABLES batch, pc, eventGroups, pos, newEpisodes, returned, stored, nextId,
          savedEvents, pending, calls, narratives, blobs

vars ==
    <<batch, pc, eventGroups, pos, newEpisodes, returned, stored, nextId,
      savedEvents, pending, calls, narratives, blobs>>

(***************************************************************************)
(* Batches.  An event of a batch is one of a pool of events, and its id is *)
(* its place in the batch, so the ids of a batch are pairwise distinct.    *)
(* Of the open bag `attributes` the entry `comment` is a field of its own, *)
(* and `evidence` is the raw_ref of the evidence of the event.             *)
(***************************************************************************)
Event(kind, time, actor, target, deployment, pr, sha, trace, ticket) ==
    [id |-> Absent, time |-> time, instance |-> "org/app", kind |-> kind,
     actor |-> actor, target |-> target,
     deployment_id |-> deployment, pr_number |-> pr, commit_sha |-> sha,
     trace_id |-> trace, ticket_id |-> ticket, parent_event_id |-> Absent,
     action |-> "act", outcome |-> "SUCCESS", attributes |-> Absent,
     comment |-> Absent, evidence |-> Absent]

WithIds(events) ==
    [i \in DOMAIN events |->
        [events[i] EXCEPT !.id = "event-" \o ToString(i)]]

\* the batches of at most n events of a pool
BatchesOf(pool, n) ==
    UNION {{WithIds(b) : b \in [1..k -> pool]} : k \in 0..n}

\* 10:00:00.000, 10:04:59.999, 10:05:00.000
T0 == <<0, 0, 0>>
T1 == <<4, 59, 999>>
T2 == <<5, 0, 0>>

\* general family: two keys, three times, two actors
GeneralPool ==
    {Event("CUSTOM", t, a, "app", Absent, Absent, c, tr, Absent) :
        t \in {T0, T1, T2}, a \in {"alice"},
        c \in {Absent, "c1"}, tr \in {Absent, "t1"}}

\* key-chain family: every combination of three keys
ChainPool ==
    {Event("CUSTOM", T0, "alice", "app", d, Absent, c, tr, Absent) :
        d \in {Absent, "d1"}, c \in {Absent, "c1"}, tr \in {Absent, "t1"}}

\* trace family: the events of two traces, with no other correlation field
TracePool ==
    {Event("CUSTOM", t, "alice", "app", Absent, Absent, Absent, tr, Absent) :
        t \in {T0, T2}, tr \in {"X", "Y"}}

\* keys family: one event, each correlation field missing, empty or set, with
\* or without a source instance and a parent_event_id
KeyPool ==
    {[Event("CUSTOM", T0, "alice", "app", d, p, c, tr, tk)
        EXCEPT !.instance = inst, !.parent_event_id = par] :
        d \in {Absent, "", "d1"}, p \in {Absent, "", "7"},
        c \in {Absent, "", "c1"}, tr \in {Absent, "", "t1"},
        tk \in {Absent, "", "k1"}, inst \in {Absent, "org/app"},
        par \in {Absent, "event-0"}}

\* keys family: two events of one pr_number, each with one of three source
\* instances or none
InstancePool ==
    {[Event(k, T0, "alice", "app", Absent, "7", Absent, Absent, Absent)
        EXCEPT !.instance = inst, !.parent_event_id = par] :
        k \in {"PR_OPENED", "PR_MERGED"},
        inst \in {Absent, "undefined", "org/app", "org/lib"},
        par \in {Absent, "event-0"}}

\* actors family: the events of one trace, of three actors and two targets
ActorPool ==
    {Event("CUSTOM", t, a, tg, Absent, Absent, Absent, "t1", Absent) :
        t \in {T0, T2}, a \in {"alice", "bob", "carol"}, tg \in {"app", "db"}}

\* opaque family: events with, and without, the fields the engine is given
\* but has no use for
OpaquePool ==
    {[Event(kt[1], kt[2], "alice", "app", Absent, Absent, Absent, tr, Absent)
        EXCEPT !.parent_event_id = x[1], !.action = x[2], !.outcome = x[3],
               !.attributes = x[4], !.evidence = x[5]] :
        kt \in {<<"PR_MERGED", T0>>, <<"PR_MERGED", T2>>, <<"DEPLOYMENT", T2>>},
        tr \in {Absent, "t1"},
        x \in {<<Absent, "act", "SUCCESS", Absent, Absent>>,
               <<"event-1", "merged", "FAILURE", "a1", "blob-1">>}}

\* narrative family: events of one trace of the kinds the narrative
\* generators read, feature flag events with a comment, a ticket or both,
\* and an event without correlation key
NarrativePool ==
    {Event(k, T0, "alice", "app", Absent, Absent, Absent, "t1", Absent) :
        k \in {"FEATURE_FLAG", "DEPLOYMENT", "PR_MERGED", "PR_APPROVED",
               "INCIDENT", "ACCESS_GRANT", "CUSTOM"}}
    \cup {[Event("FEATURE_FLAG", T2, "bob", "flag", Absent, Absent, Absent,
                 "t1", x[2]) EXCEPT !.comment = x[1]] :
            x \in {<<"why", Absent>>, <<Absent, "k1">>, <<"why", "k1">>}}
    \cup {Event("CUSTOM", T0, "alice", "app", Absent, Absent, Absent, Absent,
                Absent)}

\* kinds family: every kind, the events of one ticket, and events without
\* any correlation key, all of one time and one target
KindPool ==
    {Event(x[1], T0, "alice", "app", Absent, Absent, Absent, Absent, x[2]) :
        x \in (EventKind \X {"k1"})
               \cup ({"CUSTOM", "DEPLOYMENT"} \X {Absent})}

\* pair family: two events, in either order of time, over the kinds and the
\* correlation fields the rules of the graph read
PairKinds ==
    {"PR_MERGED", "PR_OPENED", "DEPLOYMENT", "TRACE", "FEATURE_FLAG", "CUSTOM"}

PairFirst ==
    {Event(k, t, "alice", "app", d, p, c, tr, "k1") :
        k \in PairKinds, t \in {T0, T2},
        d \in {Absent, "d1"}, p \in {Absent, "p1"},
        c \in {Absent, "c1"}, tr \in {Absent, "t1"}}

PairSecond ==
    {Event(k, t, "ci", tg, d, p, c, tr, tk) :
        k \in PairKinds, t \in {T0, T1, T2}, tg \in {"app", "db"},
        d \in {Absent, "d1"}, p \in {Absent, "p1"},
        c \in {Absent, "c1", "c2"}, tr \in {Absent, "t1"},
        tk \in {Absent, "k1"}}

(***************************************************************************)
(* Requests.  The hosting service receives the batch of the first request, *)
(* and then the pending requests, one after the other, at any time: each   *)
(* is an ingestion of events or a recompute over a range of time.          *)
(***************************************************************************)
IngestRequest(evs) ==
    [op |-> "ingest", events |-> evs, startTime |-> Absent, endTime |-> Absent]

RecomputeRequest(startTime, endTime) ==
    [op |-> "recompute", events |-> <<>>, startTime |-> startTime,
     endTime |-> endTime]

\* calls family: an event of trace t1, a later event of trace t1, and an
\* event without correlation key
CallEvent == Event("CUSTOM", T0, "alice", "app", Absent, Absent, Absent, "t1", Absent)

LaterEvent == Event("CUSTOM", T2, "bob", "app", Absent, Absent, Absent, "t1", Absent)

LoneEvent == Event("CUSTOM", T0, "alice", "app", Absent, Absent, Absent, Absent, Absent)

FirstBatches == {WithIds(<<CallEvent>>)}

\* POST /ingest/webhook/:adapter with a payload
WebhookRequest(adapter, payload) ==
    [op |-> "webhook", events |-> <<>>, startTime |-> Absent,
     endTime |-> Absent, adapter |-> adapter, payload |-> payload]

\* a payload of GitHub: action, pull_request, deployment and commits as given,
\* sent by alice (pushed by her when there are commits) for org/app
Payload(action, pull_request, deployment, commits) ==
    [action |-> action, sender |-> "alice", repository |-> "org/app",
     pull_request |-> pull_request, deployment |-> deployment,
     pusher |-> IF commits = <<>> THEN Absent ELSE "alice",
     commits |-> commits]

PullRequest(merged, merge_commit_sha, head_sha) ==
    [number |-> 7, merged |-> merged, merge_commit_sha |-> merge_commit_sha,
     head_sha |-> head_sha, updated_at |-> T0]

Deployment == [id |-> 9, sha |-> "c1", created_at |-> <<>>]

Commits ==
    <<[id |-> "c1", timestamp |-> T0, author |-> "bob"],
      [id |-> "c2", timestamp |-> <<>>, author |-> Absent]>>

\* github family: every action with and without a pull request, merged or
\* not, with and without a deployment and commits
PayloadPool ==
    {Payload(action, pull_request, deployment, commits) :
        action \in {Absent, "", "opened", "closed", "approved",
                    "review_requested", "edited"},
        pull_request \in {<<>>} \cup
            {<<PullRequest(x[1], x[2][1], x[2][2])>> :
                x \in BOOLEAN \X {<<"c1", "h1">>, <<Absent, "h1">>,
                                   <<Absent, Absent>>}},
        deployment \in {<<>>, <<Deployment>>},
        commits \in {<<>>, <<Commits>>}}

\* the payload of a merged pull request
MergedPayload ==
    Payload("closed", <<PullRequest(TRUE, "c1", "h1")>>, <<>>, <<>>)

\* an event the schema of events does not admit
BogusEvent == [LoneEvent EXCEPT !.kind = "BOGUS", !.evidence = "blob-3"]

EvidencedEvent == [LaterEvent EXCEPT !.evidence = "blob-2"]

Requests ==
    {IngestRequest(<<LaterEvent>>), IngestRequest(<<LoneEvent>>),
     RecomputeRequest(Absent, Absent)}

\* the first batch is followed by at most MaxCalls further requests
FurtherRequests ==
    /\ batch \in FirstBatches
    /\ pending \in UNION {[1..n -> Requests] : n \in 1..MaxCalls}

\* the requests that are the one further request of a batch: those above,
\* an ingestion that is rejected, an ingestion of an empty array, and
\* webhooks that are accepted, that name no adapter and that yield no event
SingleRequests ==
    Requests \cup
    {IngestRequest(<<EvidencedEvent, BogusEvent, EvidencedEvent>>),
     IngestRequest(<<>>),
     WebhookRequest("github", MergedPayload),
     WebhookRequest("gitlab", MergedPayload),
     WebhookRequest("github", Payload("closed", <<>>, <<>>, <<>>))}

\* the first batch is followed by one further request
OneFurtherRequest ==
    /\ batch \in FirstBatches
    /\ pending \in {<<r>> : r \in SingleRequests}

\* the events of the first batch have been saved (src/server.ts:63) and
\* correlate() is about to be called with them
Start ==
    /\ pc = "idle"
    /\ eventGroups = <<>>
    /\ pos = 0
    /\ newEpisodes = <<>>
    /\ returned = <<>>
    /\ stored = <<>>
    /\ nextId = 0
    /\ savedEvents = batch
    /\ calls = <<>>
    /\ narratives = {}
    /\ blobs = {batch[i].evidence : i \in {j \in DOMAIN batch :
                                              Truthy(batch[j].evidence)}}

TypeOK ==
    /\ pc \in {"idle", "loop", "done", "failed"}
    /\ pos \in 0..(Len(eventGroups) + 1)
    /\ nextId \in Nat
    /\ \A c \in DOMAIN calls :
          /\ calls[c].op \in {"ingest", "recompute", "webhook"}
          /\ calls[c].pc \in {"ready", "loop", "done", "failed", "rejected",
                               "notfound", "empty"}
          /\ calls[c].pos \in 0..(Len(calls[c].eventGroups) + 1)
    /\ Len(calls) + Len(pending) <= MaxCalls

Init ==
    /\ \/ batch \in BatchesOf(GeneralPool, MaxBatch) /\ pending = <<>>
       \/ OneFurtherRequest
    /\ Start

InitChain ==
    /\ \/ batch \in BatchesOf(ChainPool, MaxChain) /\ pending = <<>>
       \/ batch \in BatchesOf(TracePool, MaxBatch) /\ pending = <<>>
       \/ OneFurtherRequest
    /\ Start

InitKinds ==
    /\ \/ batch \in BatchesOf(KindPool, MaxKinds) /\ pending = <<>>
       \/ OneFurtherRequest
    /\ Start

InitKeys ==
    /\ \/ /\ \E a \in KeyPool : batch = WithIds(<<a>>)
          /\ pending = <<>>
       \/ /\ \E a \in InstancePool, b \in InstancePool :
                batch = WithIds(<<a, b>>)
          /\ pending = <<>>
       \/ OneFurtherRequest
    /\ Start

InitActors ==
    /\ \/ batch \in BatchesOf(ActorPool, MaxBatch) /\ pending = <<>>
       \/ OneFurtherRequest
    /\ Start

InitOpaque ==
    /\ \/ batch \in BatchesOf(OpaquePool, MaxBatch) /\ pending = <<>>
       \/ OneFurtherRequest
    /\ Start

InitGraph ==
    /\ \/ /\ \E a \in PairFirst, b \in PairSecond : batch = WithIds(<<a, b>>)
          /\ pending = <<>>
       \/ batch \in BatchesOf(GeneralPool, MaxBatch) /\ pending = <<>>
       \/ OneFurtherRequest
    /\ Start

\* the first request with further requests to come
InitCalls ==
    /\ \/ FurtherRequests
       \/ OneFurtherRequest
    /\ Start

\* github family: the first batch is followed by a webhook of GitHub
InitGithub ==
    /\ \/ /\ batch \in FirstBatches
          /\ pending \in {<<WebhookRequest("github", p)>> : p \in PayloadPool}
       \/ OneFurtherRequest
    /\ Start

InitNarrative ==
    /\ \/ batch \in BatchesOf(NarrativePool, MaxBatch) /\ pending = <<>>
       \/ OneFurtherRequest
    /\ Start

\* repeat family: a batch of the key-chain pool is ingested and a recompute
\* over all saved events follows, so correlate() is called twice on one list
InitRepeat ==
    /\ \/ /\ batch \in BatchesOf(ChainPool, MaxBatch)
          /\ pending = <<RecomputeRequest(Absent, Absent)>>
       \/ OneFurtherRequest
    /\ Start

(***************************************************************************)
(* correlate(events)                                                       *)
(***************************************************************************)
\* lines 19-20: the call starts and groups its batch
Correlate ==
    /\ pc = "idle"
    /\ pc' = "loop"
    /\ eventGroups' = groupEvents(batch)
    /\ pos' = 1
    /\ newEpisodes' = <<>>
    /\ UNCHANGED <<batch, returned, stored, nextId, savedEvents, pending,
                   calls, narratives, blobs>>

\* the identifier taken from the place of the group in the batch
EpisodeAt_IdOfPosition(groups, p, n) ==
    createEpisode(groups[p].events, determineEpisodeType(groups[p].events),
                  generateId(p))

\* one identifier generated before the loop for all the Episodes of a call
EpisodeAt_OneIdPerCall(groups, p, n) ==
    createEpisode(groups[p].events, determineEpisodeType(groups[p].events),
                  generateId(n - p + 1))

\* the place in the loop kept in a counter all calls share
EpisodeAt_SharedCounter(groups, p, n) ==
    LET at == IF n \in DOMAIN groups THEN n ELSE p
    IN  createEpisode(groups[at].events,
                      determineEpisodeType(groups[at].events), generateId(n))

\* lines 23-24: the Episode the loop builds for the group at index p, n
\* being the number of the identifier generateId() hands out
EpisodeAt(groups, p, n) ==
    createEpisode(groups[p].events, determineEpisodeType(groups[p].events),
                  generateId(n))

\* the Episode the loop builds for the group it is at (lines 23-24)
CurrentEpisode == EpisodeAt(eventGroups, pos, nextId + 1)

\* unshift in place of push
push_Front(list, episode) == <<episode>> \o list

\* line 26: newEpisodes.push(episode)
push(list, episode) == Append(list, episode)

\* lines 22-27: one iteration whose saveEpisode is acknowledged
SaveEpisodeOk ==
    /\ pc = "loop"
    /\ pos <= Len(eventGroups)
    /\ stored' = Append(stored, CurrentEpisode)
    /\ newEpisodes' = push(newEpisodes, CurrentEpisode)
    /\ nextId' = nextId + 1
    /\ pos' = pos + 1
    /\ UNCHANGED <<batch, pc, eventGroups, returned, savedEvents, pending,
                   calls, narratives, blobs>>

\* lines 22-25: one iteration whose saveEpisode fails: the rejection leaves
\* the loop and correlate() rejects
SaveEpisodeFail ==
    /\ pc = "loop"
    /\ pos <= Len(eventGroups)
    /\ nextId' = nextId + 1
    /\ pc' = "failed"
    /\ UNCHANGED <<batch, eventGroups, pos, newEpisodes, returned, stored,
                   savedEvents, pending, calls, narratives, blobs>>

\* the Narratives the handler generates and saves for the Episodes
\* correlate() returned (src/server.ts:68-73, 121-124, 240-243)
NarrativesOf(episodes) ==
    {generateNarrative(savedEvents, episodes[k]) : k \in DOMAIN episodes}

\* line 29, and the Narratives of the returned Episodes
Return ==
    /\ pc = "loop"
    /\ pos > Len(eventGroups)
    /\ returned' = newEpisodes
    /\ pc' = "done"
    /\ narratives' = narratives \cup NarrativesOf(newEpisodes)
    /\ UNCHANGED <<batch, eventGroups, pos, newEpisodes, stored, nextId,
                   savedEvents, pending, calls, blobs>>

(***************************************************************************)
(* The requests after the first, each handled while earlier calls may be   *)
(* suspended at their saveEpisode.                                         *)
(***************************************************************************)
\* the ids of the events of a request: src/server.ts:49-52 gives every event
\* an id of its own
WithIdsFrom(evs, n) ==
    [i \in DOMAIN evs |-> [evs[i] EXCEPT !.id = "event-" \o ToString(n + i)]]

QueryLimit == 10000

\* Storage.queryEvents({startTime, endTime, limit}): the saved events of the
\* range of time, at most `limit` of them
queryEvents(saved, startTime, endTime, limit) ==
    LET InRange(e) ==
            /\ startTime = Absent \/ localeCompare(startTime, e.time) <= 0
            /\ endTime = Absent \/ localeCompare(e.time, endTime) <= 0
        found == SelectSeq(saved, InRange)
    IN  IF Len(found) <= limit THEN found ELSE SubSeq(found, 1, limit)

\* a call for a request, before correlate() is entered
NewCall(request, evs) ==
    [op |-> request.op, request |-> request, batch |-> evs, pc |-> "ready",
     eventGroups |-> <<>>, pos |-> 0, newEpisodes |-> <<>>, returned |-> <<>>]

\* a request answered without a call of correlate(): 400, 404, or 200 with
\* no event
Answered(request, status) == [NewCall(request, <<>>) EXCEPT !.pc = status]

Outcome == {"SUCCESS", "FAILURE", "UNKNOWN", "PENDING"}

\* NormalizedEventInputSchema.safeParse(rawEvent).success
safeParse(rawEvent) ==
    rawEvent.kind \in EventKind /\ rawEvent.outcome \in Outcome

\* the valid events given to correlate() without being saved
IngestEvents_NotSaved ==
    /\ pending # <<>>
    /\ Head(pending).op = "ingest"
    /\ LET rawEvents == Head(pending).events
           invalid == {i \in DOMAIN rawEvents : ~safeParse(rawEvents[i])}
           parsed == IF invalid = {} THEN Len(rawEvents) ELSE Min(invalid) - 1
           evs == WithIdsFrom(rawEvents, Len(savedEvents))
       IN  /\ blobs' = blobs \cup {evs[i].evidence :
                                      i \in {j \in 1..parsed :
                                                Truthy(evs[j].evidence)}}
           /\ IF invalid # {}
              THEN calls' = Append(calls, Answered(Head(pending), "rejected"))
              ELSE calls' = Append(calls, NewCall(Head(pending), evs))
           /\ UNCHANGED savedEvents
    /\ pending' = Tail(pending)
    /\ UNCHANGED <<batch, pc, eventGroups, pos, newEpisodes, returned, stored,
                   nextId, narratives>>

\* src/server.ts:29-63: POST /ingest/events validates the events one after
\* the other, gives each an id and saves the raw payload of those that have
\* evidence; the request is rejected at the first invalid event, and the
\* events are saved when all are valid
IngestEvents ==
    /\ pending # <<>>
    /\ Head(pending).op = "ingest"
    /\ LET rawEvents == Head(pending).events
           invalid == {i \in DOMAIN rawEvents : ~safeParse(rawEvents[i])}
           parsed == IF invalid = {} THEN Len(rawEvents) ELSE Min(invalid) - 1
           evs == WithIdsFrom(rawEvents, Len(savedEvents))
       IN  /\ blobs' = blobs \cup {evs[i].evidence :
                                      i \in {j \in 1..parsed :
                                                Truthy(evs[j].evidence)}}
           /\ IF invalid # {}
              THEN /\ calls' = Append(calls,
                                      Answered(Head(pending), "rejected"))
                   /\ UNCHANGED savedEvents
              ELSE /\ savedEvents' = savedEvents \o evs
                   /\ calls' = Append(calls, NewCall(Head(pending), evs))
    /\ pending' = Tail(pending)
    /\ UNCHANGED <<batch, pc, eventGroups, pos, newEpisodes, returned, stored,
                   nextId, narratives>>

\* the times new Date() may give
Clock == {T1, T2}

\* src/server.ts:87-116: POST /ingest/webhook/:adapter looks the adapter up,
\* has it normalize the payload, and saves the events when there are any
Webhook ==
    /\ pending # <<>>
    /\ Head(pending).op = "webhook"
    /\ \E now \in Clock :
          LET evs == WithIdsFrom(normalize(Head(pending).payload, now),
                                 Len(savedEvents))
          IN  IF Head(pending).adapter # "github"
              THEN /\ calls' = Append(calls,
                                      Answered(Head(pending), "notfound"))
                   /\ UNCHANGED savedEvents
              ELSE IF evs = <<>>
              THEN /\ calls' = Append(calls, Answered(Head(pending), "empty"))
                   /\ UNCHANGED savedEvents
              ELSE /\ savedEvents' = savedEvents \o evs
                   /\ calls' = Append(calls, NewCall(Head(pending), evs))
    /\ pending' = Tail(pending)
    /\ UNCHANGED <<batch, pc, eventGroups, pos, newEpisodes, returned, stored,
                   nextId, narratives, blobs>>

\* lines 35-40: recompute() queries the events of the range
Recompute ==
    /\ pending # <<>>
    /\ Head(pending).op = "recompute"
    /\ calls' = Append(calls,
                       NewCall(Head(pending),
                               queryEvents(savedEvents, Head(pending).startTime,
                                           Head(pending).endTime, QueryLimit)))
    /\ pending' = Tail(pending)
    /\ UNCHANGED <<batch, pc, eventGroups, pos, newEpisodes, returned, stored,
                   nextId, savedEvents, narratives, blobs>>

\* the events that are members of a stored Episode left out of the batch
StartCorrelate_SkipStoredEvents(call) ==
    LET IsNew(e) == \A k \in DOMAIN stored : e.id \notin Range(stored[k].events)
    IN  [call EXCEPT !.pc = "loop",
                     !.eventGroups = groupEvents(SelectSeq(call.batch, IsNew)),
                     !.pos = 1]

\* the batch grouped out of all the saved events
StartCorrelate_AllSavedEvents(call) ==
    [call EXCEPT !.pc = "loop", !.eventGroups = groupEvents(savedEvents),
                 !.pos = 1]

\* lines 19-20: correlate() is entered and groups its batch
StartCorrelate(call) ==
    [call EXCEPT !.pc = "loop", !.eventGroups = groupEvents(call.batch),
                 !.pos = 1]

\* line 42 and src/server.ts:66: correlate(events) is called
CallCorrelate(c) ==
    /\ calls[c].pc = "ready"
    /\ calls' = [calls EXCEPT ![c] = StartCorrelate(calls[c])]
    /\ UNCHANGED <<batch, pc, eventGroups, pos, newEpisodes, returned, stored,
                   nextId, savedEvents, pending, narratives, blobs>>

\* lines 22-27: one iteration whose saveEpisode is acknowledged
CallSaveEpisodeOk(c) ==
    /\ calls[c].pc = "loop"
    /\ calls[c].pos <= Len(calls[c].eventGroups)
    /\ LET episode == EpisodeAt(calls[c].eventGroups, calls[c].pos, nextId + 1)
       IN  /\ stored' = Append(stored, episode)
           /\ calls' = [calls EXCEPT
                            ![c].newEpisodes = push(@, episode),
                            ![c].pos = @ + 1]
    /\ nextId' = nextId + 1
    /\ UNCHANGED <<batch, pc, eventGroups, pos, newEpisodes, returned,
                   savedEvents, pending, narratives, blobs>>

\* lines 22-25: one iteration whose saveEpisode fails
CallSaveEpisodeFail(c) ==
    /\ calls[c].pc = "loop"
    /\ calls[c].pos <= Len(calls[c].eventGroups)
    /\ nextId' = nextId + 1
    /\ calls' = [calls EXCEPT ![c].pc = "failed"]
    /\ UNCHANGED <<batch, pc, eventGroups, pos, newEpisodes, returned, stored,
                   savedEvents, pending, narratives, blobs>>

\* line 29, and the Narratives of the returned Episodes
CallReturn(c) ==
    /\ calls[c].pc = "loop"
    /\ calls[c].pos > Len(calls[c].eventGroups)
    /\ calls' = [calls EXCEPT ![c].returned = calls[c].newEpisodes,
                              ![c].pc = "done"]
    /\ narratives' = narratives \cup NarrativesOf(calls[c].newEpisodes)
    /\ UNCHANGED <<batch, pc, eventGroups, pos, newEpisodes, returned, stored,
                   nextId, savedEvents, pending, blobs>>

Next ==
    \/ Correlate
    \/ SaveEpisodeOk
    \/ SaveEpisodeFail
    \/ Return
    \/ IngestEvents
    \/ Webhook
    \/ Recompute
    \/ \E c \in DOMAIN calls : CallCorrelate(c)
    \/ \E c \in DOMAIN calls : CallSaveEpisodeOk(c)
    \/ \E c \in DOMAIN calls : CallSaveEpisodeFail(c)
    \/ \E c \in DOMAIN calls : CallReturn(c)

Spec == Init /\ [][Next]_vars

SpecChain == InitChain /\ [][Next]_vars

SpecKinds == InitKinds /\ [][Next]_vars

SpecGraph == InitGraph /\ [][Next]_vars

SpecKeys == InitKeys /\ [][Next]_vars

SpecCalls == InitCalls /\ [][Next]_vars

SpecActors == InitActors /\ [][Next]_vars

SpecOpaque == InitOpaque /\ [][Next]_vars

SpecNarrative == InitNarrative /\ [][Next]_vars

SpecGithub == InitGithub /\ [][Next]_vars

SpecRepeat == InitRepeat /\ [][Next]_vars

(***************************************************************************)
(* Properties                                                              *)
(***************************************************************************)
\* the event of the batch with this id
EventById(id) == batch[CHOOSE i \in DOMAIN batch : batch[i].id = id]

\* the member events of an Episode, in the order of Episode.events
Members(episode) ==
    [n \in DOMAIN episode.events |-> EventById(episode.events[n])]

SameEpisode(episodes, a, b) ==
    \E k \in DOMAIN episodes :
        a \in Range(episodes[k].events) /\ b \in Range(episodes[k].events)

ShareKey(e1, e2) == KeySet(e1) \cap KeySet(e2) # {}

\* order of two time strings of the fixed format
TimeLeq(a, b) ==
    \/ a[1] < b[1]
    \/ a[1] = b[1] /\ a[2] < b[2]
    \/ a[1] = b[1] /\ a[2] = b[2] /\ a[3] <= b[3]

\* the index of the seed group the event with this id was assigned to
SeedIndex(seeds, id) ==
    CHOOSE g \in DOMAIN seeds :
        \E n \in DOMAIN seeds[g].events : seeds[g].events[n].id = id

\* no seed group created before group g shares a key with group g or group h
NothingEarlierRelated(seeds, g, h) ==
    \A f \in 1..(g - 1) :
        /\ GroupKeys(seeds[f].events) \cap GroupKeys(seeds[g].events) = {}
        /\ GroupKeys(seeds[f].events) \cap GroupKeys(seeds[h].events) = {}

\* C1 as stated: when correlate() has returned, any two events of the batch
\* that share a correlation key are members of one returned Episode.
C1_SharedKeySameEpisode ==
    pc = "done" =>
        \A i, j \in DOMAIN batch :
            ShareKey(batch[i], batch[j])
                => SameEpisode(returned, batch[i].id, batch[j].id)

\* C1 amended: two events that share a correlation key are members of one
\* returned Episode provided they were assigned to the same seed group, or no
\* seed group created before the earlier of their two seed groups shares a
\* correlation key with either of the two.
C1_SharedKeySameEpisodeOnePass ==
    pc = "done" =>
        LET seeds == SeedGroups(batch)
        IN  \A i, j \in DOMAIN batch :
                LET g == SeedIndex(seeds, batch[i].id)
                    h == SeedIndex(seeds, batch[j].id)
                IN  /\ ShareKey(batch[i], batch[j])
                    /\ g <= h
                    /\ (g = h \/ NothingEarlierRelated(seeds, g, h))
                    => SameEpisode(returned, batch[i].id, batch[j].id)

\* two events that share a key were assigned to different seed groups and the
\* merge pass has put them into one Episode, next to another Episode
C1_Witness ==
    /\ pc = "done"
    /\ Len(returned) > 1
    /\ LET seeds == SeedGroups(batch)
       IN  \E i, j \in DOMAIN batch :
              /\ ShareKey(batch[i], batch[j])
              /\ SeedIndex(seeds, batch[i].id) < SeedIndex(seeds, batch[j].id)
              /\ NothingEarlierRelated(seeds, SeedIndex(seeds, batch[i].id),
                                       SeedIndex(seeds, batch[j].id))
              /\ SameEpisode(returned, batch[i].id, batch[j].id)

\* C2 as stated: when a saveEpisode of the call has failed, storage holds no
\* Episode of the call (storage was empty before the call).
C2_FailedBatchNotPersisted ==
    pc = "failed" => stored = <<>>

\* C3: in every returned Episode graph.nodes lists exactly the ids of the
\* events of the group the Episode was made from, which are the ids of
\* Episode.events, each id once.
C3_NodesAreEvents ==
    pc = "done" =>
        \A k \in DOMAIN returned :
            LET nodes == returned[k].graph.nodes
                group == eventGroups[k].events
            IN  /\ Range(nodes) = {group[n].id : n \in DOMAIN group}
                /\ Range(nodes) = Range(returned[k].events)
                /\ Cardinality(Range(nodes)) = Len(nodes)
                /\ Len(nodes) = Len(group)

\* an Episode of three events, one of them with no edge, has been returned
C3_Witness ==
    /\ pc = "done"
    /\ \E k \in DOMAIN returned :
          /\ Len(returned[k].graph.nodes) = 3
          /\ \E n \in Range(returned[k].graph.nodes) :
                \A x \in Range(returned[k].graph.edges) :
                    x.from # n /\ x.to # n

\* C4: start_time and end_time of every returned Episode are times of member
\* events, and start_time <= time(e) <= end_time for every member event e.
C4_TimeBounds ==
    pc = "done" =>
        \A k \in DOMAIN returned :
            LET members == Members(returned[k])
                times == {members[n].time : n \in DOMAIN members}
            IN  /\ returned[k].start_time \in times
                /\ returned[k].end_time \in times
                /\ \A t \in times :
                      /\ TimeLeq(returned[k].start_time, t)
                      /\ TimeLeq(t, returned[k].end_time)

\* an Episode whose first event in the batch is neither its earliest nor its
\* latest has been returned
C4_Witness ==
    /\ pc = "done"
    /\ \E k \in DOMAIN returned :
          LET first == CHOOSE i \in DOMAIN batch :
                          /\ batch[i].id \in Range(returned[k].events)
                          /\ \A j \in 1..(i - 1) :
                                batch[j].id \notin Range(returned[k].events)
          IN  /\ returned[k].start_time # batch[first].time
              /\ returned[k].end_time # batch[first].time

\* C5: Episode.events of every returned Episode is in ascending order of the
\* time strings of the events.
C5_EventsAscending ==
    pc = "done" =>
        \A k \in DOMAIN returned :
            LET members == Members(returned[k])
            IN  \A n \in 1..(Len(members) - 1) :
                    TimeLeq(members[n].time, members[n + 1].time)

\* an Episode merged from two seed groups, whose events came in the batch in
\* another order than that of their times, has been returned
C5_Witness ==
    /\ pc = "done"
    /\ LET seeds == SeedGroups(batch)
       IN  \E k \in DOMAIN returned :
              /\ \E a, b \in Range(returned[k].events) :
                    SeedIndex(seeds, a) # SeedIndex(seeds, b)
              /\ \E i, j \in DOMAIN batch :
                    /\ i < j
                    /\ batch[i].id \in Range(returned[k].events)
                    /\ batch[j].id \in Range(returned[k].events)
                    /\ ~TimeLeq(batch[i].time, batch[j].time)

\* the classifier's table: the kinds of a row, and the type the row gives
TypePriority ==
    <<[kinds |-> {"DEPLOYMENT"}, type |-> "DeploymentEpisode"],
      [kinds |-> {"FEATURE_FLAG"}, type |-> "FlagEpisode"],
      [kinds |-> {"ACCESS_GRANT", "ACCESS_REVOKE"}, type |-> "AccessEpisode"],
      [kinds |-> {"INCIDENT"}, type |-> "IncidentEpisode"],
      [kinds |-> {"PR_MERGED"}, type |-> "PRMergeEpisode"]>>

KindsOf(episode) ==
    {Members(episode)[n].kind : n \in DOMAIN episode.events}

\* C6: the type of every returned Episode is that of the first row of the
\* table with a kind among the kinds of the member events, CustomEpisode when
\* there is no such row; an Episode with a DEPLOYMENT and an ACCESS_GRANT
\* event is a DeploymentEpisode.
C6_TypeByPriority ==
    pc = "done" =>
        \A k \in DOMAIN returned :
            LET kinds == KindsOf(returned[k])
                rows == {r \in DOMAIN TypePriority :
                            TypePriority[r].kinds \cap kinds # {}}
            IN  /\ returned[k].type =
                      IF rows = {} THEN "CustomEpisode"
                      ELSE TypePriority[Min(rows)].type
                /\ {"DEPLOYMENT", "ACCESS_GRANT"} \subseteq kinds
                      => returned[k].type = "DeploymentEpisode"

\* an Episode with a DEPLOYMENT and an ACCESS_GRANT event has been returned,
\* next to a CustomEpisode
C6_Witness ==
    /\ pc = "done"
    /\ \E k \in DOMAIN returned :
          {"DEPLOYMENT", "ACCESS_GRANT"} \subseteq KindsOf(returned[k])
    /\ \E k \in DOMAIN returned : returned[k].type = "CustomEpisode"

\* the condition of rule r of the Causal Graph Builder for a pair of events
RuleHolds(r, e, l) ==
    CASE r = 1 -> /\ e.kind = "PR_MERGED" /\ l.kind = "DEPLOYMENT"
                  /\ e.commit_sha = l.commit_sha
      [] r = 2 -> /\ e.kind = "DEPLOYMENT" /\ l.kind = "TRACE"
                  /\ e.deployment_id = l.deployment_id
      [] r = 3 -> e.kind = "FEATURE_FLAG" /\ l.kind = "TRACE"
      [] r = 4 -> /\ e.kind \in {"PR_MERGED", "PR_OPENED", "PR_APPROVED"}
                  /\ l.kind \in {"PR_MERGED", "PR_OPENED", "PR_APPROVED"}
                  /\ e.pr_number = l.pr_number
      [] r = 5 -> /\ e.trace_id \notin {Absent, ""}
                  /\ e.trace_id = l.trace_id
      [] r = 6 -> /\ e.deployment_id \notin {Absent, ""}
                  /\ e.deployment_id = l.deployment_id
      [] r = 7 -> /\ getTime(l.time) - getTime(e.time) < 300000
                  /\ e.target = l.target

RuleType ==
    <<"CAUSES", "TRIGGERS", "TRIGGERS", "FOLLOWS", "RELATES_TO", "RELATES_TO",
      "FOLLOWS">>

\* the types of the edges of an Episode from one event to another
EdgeTypes(episode, from, to) ==
    {x.type : x \in {y \in Range(episode.graph.edges) :
                        y.from = from /\ y.to = to}}

C8_OneEdgePerPair ==
    pc = "done" =>
        \A k \in DOMAIN returned :
            LET edges == returned[k].graph.edges
            IN  /\ \A a, b \in DOMAIN edges :
                      (edges[a].from = edges[b].from
                          /\ edges[a].to = edges[b].to) => a = b
                /\ Len(returned[k].events) = 1 => edges = <<>>

\* an Episode of one event and an Episode with two edges have been returned
C8_Witness ==
    /\ pc = "done"
    /\ \E k \in DOMAIN returned :
          Len(returned[k].events) = 1 /\ returned[k].graph.edges = <<>>
    /\ \E k \in DOMAIN returned : Len(returned[k].graph.edges) >= 1

\* the batch is a PR_MERGED event and a DEPLOYMENT event of a later time, in
\* either order, with one commit_sha: the places of the two in the batch
ScenarioA ==
    {x \in (DOMAIN batch) \X (DOMAIN batch) :
        /\ Len(batch) = 2
        /\ batch[x[1]].kind = "PR_MERGED"
        /\ batch[x[2]].kind = "DEPLOYMENT"
        /\ batch[x[1]].commit_sha \notin {Absent, ""}
        /\ batch[x[1]].commit_sha = batch[x[2]].commit_sha
        /\ ~TimeLeq(batch[x[2]].time, batch[x[1]].time)}

\* C9: for a batch of a PR_MERGED event and a later DEPLOYMENT event with the
\* same commit_sha, correlate() returns one Episode, a DeploymentEpisode of
\* the two events with a CAUSES edge from the PR_MERGED to the DEPLOYMENT
\* event, whatever the other fields of the two are.
C9_ScenarioA ==
    pc = "done" =>
        \A x \in ScenarioA :
            /\ Len(returned) = 1
            /\ returned[1].type = "DeploymentEpisode"
            /\ Range(returned[1].events) = {batch[1].id, batch[2].id}
            /\ Len(returned[1].events) = 2
            /\ \E y \in Range(returned[1].graph.edges) :
                  /\ y.from = batch[x[1]].id
                  /\ y.to = batch[x[2]].id
                  /\ y.type = "CAUSES"

\* the scenario with the DEPLOYMENT event first in the batch, the two events
\* sharing only the commit_sha and differing in target
C9_Witness ==
    /\ pc = "done"
    /\ <<2, 1>> \in ScenarioA
    /\ KeySet(batch[1]) \cap KeySet(batch[2]) = {"commit:c1"}
    /\ batch[1].target # batch[2].target
    /\ Len(returned) = 1

\* C10: for a pair (earlier, later) of the events of a returned Episode with
\* the same target id that satisfies none of the rules 1 to 6, there is a
\* FOLLOWS edge from earlier to later if later.time - earlier.time < 300000 ms
\* and no edge otherwise.
C10_StrictlyLessThanFiveMinutes ==
    pc = "done" =>
        \A k \in DOMAIN returned :
            LET members == Members(returned[k])
            IN  \A n, m \in DOMAIN members :
                    (/\ n < m
                     /\ members[n].target = members[m].target
                     /\ \A r \in 1..6 : ~RuleHolds(r, members[n], members[m]))
                    => EdgeTypes(returned[k], members[n].id, members[m].id) =
                          IF getTime(members[m].time) - getTime(members[n].time)
                                < 300000
                          THEN {"FOLLOWS"} ELSE {}

\* two events of one target exactly 300000 ms apart are the Episode, and the
\* Episode has no edge
C10_Witness ==
    /\ pc = "done"
    /\ Len(returned) = 1
    /\ Len(returned[1].events) = 2
    /\ LET e == Members(returned[1])[1]
           l == Members(returned[1])[2]
       IN  /\ e.target = l.target
           /\ getTime(l.time) - getTime(e.time) = 300000
           /\ returned[1].graph.edges = <<>>

\* the event has none of the five correlation fields
NoCorrelationFields(e) ==
    /\ e.deployment_id = Absent /\ e.pr_number = Absent
    /\ e.commit_sha = Absent /\ e.trace_id = Absent /\ e.ticket_id = Absent

ClassifyingKinds ==
    {"DEPLOYMENT", "FEATURE_FLAG", "ACCESS_GRANT", "ACCESS_REVOKE", "INCIDENT",
     "PR_MERGED"}

\* C11: an event of the batch without correlation keys is the one member of
\* exactly one returned Episode, that Episode has no edge, and its type is
\* CustomEpisode when the kind of the event is not a classifying kind.
C11_KeylessEventAlone ==
    pc = "done" =>
        \A i \in DOMAIN batch :
            NoCorrelationFields(batch[i]) =>
                /\ Cardinality({k \in DOMAIN returned :
                                  batch[i].id \in Range(returned[k].events)}) = 1
                /\ \E k \in DOMAIN returned :
                      /\ returned[k].events = <<batch[i].id>>
                      /\ returned[k].graph.edges = <<>>
                      /\ batch[i].kind \notin ClassifyingKinds
                            => returned[k].type = "CustomEpisode"

\* two events without keys, of one time and one target, and an event with a
\* key were the batch, and three Episodes have been returned
C11_Witness ==
    /\ pc = "done"
    /\ Len(batch) = 3
    /\ Len(returned) = 3
    /\ \E i, j, k \in DOMAIN batch :
          /\ i # j
          /\ NoCorrelationFields(batch[i]) /\ NoCorrelationFields(batch[j])
          /\ batch[i].kind = "CUSTOM" /\ batch[j].kind = "DEPLOYMENT"
          /\ ~NoCorrelationFields(batch[k])
          /\ batch[i].time = batch[j].time /\ batch[i].target = batch[j].target

\* the two events have an equal, non-empty value in one of the five
\* correlation fields (and, for pr_number, the same source instance)
SameCorrelationValue(e, l) ==
    \/ e.deployment_id \notin {Absent, ""} /\ e.deployment_id = l.deployment_id
    \/ /\ e.pr_number \notin {Absent, ""} /\ e.pr_number = l.pr_number
       /\ e.instance = l.instance
    \/ e.commit_sha \notin {Absent, ""} /\ e.commit_sha = l.commit_sha
    \/ e.trace_id \notin {Absent, ""} /\ e.trace_id = l.trace_id
    \/ e.ticket_id \notin {Absent, ""} /\ e.ticket_id = l.ticket_id

\* any two of the events are linked by a chain of the events in which
\* consecutive events share a correlation value: no part of the events is cut
\* off from the rest
Chained(members) ==
    \A S \in SUBSET (DOMAIN members) :
        (S # {} /\ S # DOMAIN members) =>
            \E n \in S, m \in (DOMAIN members) \ S :
                SameCorrelationValue(members[n], members[m])

\* the batch is two events of trace X and one of trace Y, in any order, with
\* no other correlation field
ScenarioC ==
    /\ Len(batch) = 3
    /\ Cardinality({i \in DOMAIN batch : batch[i].trace_id = "X"}) = 2
    /\ Cardinality({i \in DOMAIN batch : batch[i].trace_id = "Y"}) = 1
    /\ \A i \in DOMAIN batch :
          /\ batch[i].deployment_id = Absent /\ batch[i].pr_number = Absent
          /\ batch[i].commit_sha = Absent /\ batch[i].ticket_id = Absent

\* C12: the member events of every returned Episode are linked by chains of
\* member events in which consecutive events share a correlation key; and
\* for a batch of two events of trace X and one of trace Y the returned
\* Episodes are the two events of X and, apart, the event of Y.
C12_GroupingSound ==
    pc = "done" =>
        /\ \A k \in DOMAIN returned : Chained(Members(returned[k]))
        /\ ScenarioC =>
              /\ Len(returned) = 2
              /\ {Range(returned[k].events) : k \in DOMAIN returned} =
                    {{batch[i].id : i \in {j \in DOMAIN batch :
                                              batch[j].trace_id = v}} :
                        v \in {"X", "Y"}}

\* the scenario with the event of trace Y between the two of trace X in the
\* batch and first in time
C12_Witness ==
    /\ pc = "done"
    /\ ScenarioC
    /\ batch[2].trace_id = "Y"
    /\ batch[2].time = T0 /\ batch[1].time = T2
    /\ Len(returned) = 2

\* the source instance as it is written into a key: an event without source
\* instance has the text undefined there
InstanceText(e) == IF e.instance = Absent THEN "undefined" ELSE e.instance

\* the keys of the events' fields in the order deployment, pr, commit, trace,
\* ticket, those of the fields with a value in `none` left out
KeysInOrder(e, none) ==
    (IF e.deployment_id \in none THEN <<>>
     ELSE <<"deployment:" \o e.deployment_id>>)
    \o (IF e.pr_number \in none THEN <<>>
        ELSE <<"pr:" \o InstanceText(e) \o ":" \o e.pr_number>>)
    \o (IF e.commit_sha \in none THEN <<>> ELSE <<"commit:" \o e.commit_sha>>)
    \o (IF e.trace_id \in none THEN <<>> ELSE <<"trace:" \o e.trace_id>>)
    \o (IF e.ticket_id \in none THEN <<>> ELSE <<"ticket:" \o e.ticket_id>>)

\* two events with the same five correlation fields and the same source
\* instance have the same key list, whatever their other fields
KeysDeterministic ==
    \A i, j \in DOMAIN batch :
        (/\ batch[i].deployment_id = batch[j].deployment_id
         /\ batch[i].pr_number = batch[j].pr_number
         /\ batch[i].commit_sha = batch[j].commit_sha
         /\ batch[i].trace_id = batch[j].trace_id
         /\ batch[i].ticket_id = batch[j].ticket_id
         /\ batch[i].instance = batch[j].instance)
        => getCorrelationKeys(batch[i]) = getCorrelationKeys(batch[j])

\* C13 as stated: the key list of every event is the keys of its fields in
\* the fixed order with only the keys of absent fields left out, it depends
\* on the five fields and the source instance only, and two events with the
\* same pr_number and different source instances have no pr key in common.
C13_KeysOfPresentFields ==
    pc # "idle" =>
        /\ \A i \in DOMAIN batch :
              getCorrelationKeys(batch[i]) = KeysInOrder(batch[i], {Absent})
        /\ KeysDeterministic
        /\ \A i, j \in DOMAIN batch :
              (/\ batch[i].pr_number # Absent
               /\ batch[i].pr_number = batch[j].pr_number
               /\ batch[i].instance # batch[j].instance)
              => getCorrelationKeys(batch[i])[1] # getCorrelationKeys(batch[j])[1]

\* C13 amended: the key list of every event is the keys of its fields in the
\* fixed order with the keys of the absent and of the empty fields left out,
\* the source instance of an event that has none being written as undefined;
\* it depends on the five fields and the source instance only; and two
\* events with the same non-empty pr_number that both have a source
\* instance, the two instances different, have no pr key in common.
C13_KeysOfNonEmptyFields ==
    pc # "idle" =>
        /\ \A i \in DOMAIN batch :
              getCorrelationKeys(batch[i]) = KeysInOrder(batch[i], {Absent, ""})
        /\ KeysDeterministic
        /\ \A i, j \in DOMAIN batch :
              (/\ batch[i].pr_number \notin {Absent, ""}
               /\ batch[i].pr_number = batch[j].pr_number
               /\ batch[i].instance # Absent /\ batch[j].instance # Absent
               /\ batch[i].instance # batch[j].instance)
              => /\ Range(getCorrelationKeys(batch[i]))
                       \cap Range(getCorrelationKeys(batch[j])) = {}
                 /\ pc = "done" => Len(returned) = 2

\* two events of one pr_number and two source instances, one of them with a
\* parent_event_id, have been correlated into two Episodes
C13_Witness ==
    /\ pc = "done"
    /\ Len(batch) = 2
    /\ batch[1].pr_number = "7" /\ batch[2].pr_number = "7"
    /\ batch[1].instance = "org/app" /\ batch[2].instance = "org/lib"
    /\ batch[1].parent_event_id # batch[2].parent_event_id
    /\ Len(returned) = 2

\* v is the value that occurs most often in the list, and of the values that
\* occur as often the one that comes first in the list
MostFrequentFirstMet(list, v) ==
    LET Occurrences(w) == Cardinality({n \in DOMAIN list : list[n] = w})
        FirstAt(w) == Min({n \in DOMAIN list : list[n] = w})
    IN  /\ v \in Range(list)
        /\ \A w \in Range(list) :
              \/ Occurrences(w) < Occurrences(v)
              \/ Occurrences(w) = Occurrences(v) /\ FirstAt(v) <= FirstAt(w)

\* C17: primary_actor of every returned Episode is the actor id that occurs
\* most often among the member events and, of the ids that occur as often,
\* the one met first in the order of Episode.events (the order of time);
\* primary_target likewise over the target ids.
C17_PrimaryMostFrequentFirstMet ==
    pc = "done" =>
        \A k \in DOMAIN returned :
            LET members == Members(returned[k])
            IN  /\ MostFrequentFirstMet(
                      [n \in DOMAIN members |-> members[n].actor],
                      returned[k].primary_actor)
                /\ MostFrequentFirstMet(
                      [n \in DOMAIN members |-> members[n].target],
                      returned[k].primary_target)

\* three events of three actors, alice first in the batch and bob first in
\* time: bob is the primary actor
C17_Witness ==
    /\ pc = "done"
    /\ Len(returned) = 1
    /\ Len(batch) = 3
    /\ batch[1].actor = "alice" /\ batch[1].time = T2
    /\ batch[2].actor = "carol" /\ batch[2].time = T2
    /\ batch[3].actor = "bob" /\ batch[3].time = T0
    /\ returned[1].primary_actor = "bob"

\* the Episodes correlate() makes of a batch when it runs alone and no save
\* fails, the k-th with the k-th id from `first` on
EpisodesOf(events, first) ==
    LET groups == groupEvents(events)
    IN  [k \in DOMAIN groups |->
            createEpisode(groups[k].events,
                          determineEpisodeType(groups[k].events),
                          generateId(first + k))]

\* what the engine decides about an Episode: all of it but the id
Decisions(episodes) ==
    [k \in DOMAIN episodes |-> [episodes[k] EXCEPT !.id = Absent]]

\* the batch with parent_event_id, action, outcome, attributes and evidence
\* of every event set to one value
Plain(events) ==
    [i \in DOMAIN events |->
        [events[i] EXCEPT !.parent_event_id = Absent, !.action = "act",
                          !.outcome = "SUCCESS", !.attributes = Absent,
                          !.comment = Absent, !.evidence = Absent]]

\* C20: the Episodes returned for a batch are, in members, order of events,
\* type, times, primary actor and target, nodes and edges, those of the batch
\* that differs from it only in parent_event_id, action, outcome, attributes
\* and evidence of its events.
C20_OpaqueFieldsIgnored ==
    pc = "done" =>
        Decisions(returned) = Decisions(EpisodesOf(Plain(batch), 0))

\* two events that have nothing in common but their parent_event_id, their
\* attributes and their evidence have been put into two Episodes
C20_Witness ==
    /\ pc = "done"
    /\ Len(batch) = 2
    /\ batch[1].parent_event_id = "event-1"
    /\ batch[2].parent_event_id = "event-1"
    /\ batch[1].attributes = "a1" /\ batch[2].attributes = "a1"
    /\ batch[1].trace_id = Absent /\ batch[2].trace_id = "t1"
    /\ Len(returned) = 2

\* all the calls, the call of the first request first
AllCalls ==
    <<[op |-> "ingest", batch |-> batch, pc |-> pc,
       eventGroups |-> eventGroups, pos |-> pos,
       newEpisodes |-> newEpisodes, returned |-> returned]>> \o calls

IdsOf(evs) == {evs[i].id : i \in DOMAIN evs}

\* every event of the batch of a recompute() call that has returned is a
\* member of exactly one Episode the call returned, and these Episodes are
\* stored
RecomputeComplete ==
    \A c \in DOMAIN calls :
        (calls[c].op = "recompute" /\ calls[c].pc = "done") =>
            /\ \A id \in IdsOf(calls[c].batch) :
                  Cardinality({k \in DOMAIN calls[c].returned :
                      id \in Range(calls[c].returned[k].events)}) = 1
            /\ Range(calls[c].returned) \subseteq Range(stored)

\* C14: no step of correlate() or recompute() changes or removes a stored
\* Episode, every Episode a step stores has an id no stored Episode has, and
\* a recompute() call that has returned has stored a complete set of
\* Episodes of the events it queried.
C14_RecomputeAddsOnly ==
    [][/\ Len(stored') >= Len(stored)
       /\ SubSeq(stored', 1, Len(stored)) = stored
       /\ \A k \in (Len(stored) + 1)..Len(stored') :
             \A j \in DOMAIN stored : stored'[k].id # stored[j].id
       /\ RecomputeComplete']_vars

\* two recompute() calls over the same events have returned: every event
\* of the first batch is a member of three stored Episodes
C14_Witness ==
    /\ pc = "done"
    /\ Len(calls) = 2
    /\ \A c \in DOMAIN calls :
          /\ calls[c].op = "recompute" /\ calls[c].pc = "done"
          /\ calls[c].batch = batch
    /\ \A id \in IdsOf(batch) :
          Cardinality({k \in DOMAIN stored :
                          id \in Range(stored[k].events)}) = 3

\* C15: every call that has returned has returned, up to the ids, the
\* Episodes correlate() makes of its batch when it runs alone, and all of
\* them are stored, however the steps of the calls were interleaved.
C15_ConcurrentCallsIndependent ==
    \A c \in DOMAIN AllCalls :
        AllCalls[c].pc = "done" =>
            /\ Decisions(AllCalls[c].returned) =
                  Decisions(EpisodesOf(AllCalls[c].batch, 0))
            /\ Range(AllCalls[c].returned) \subseteq Range(stored)

\* an ingestion and a recompute() call have returned, and the Episode of the
\* ingestion was saved between the two Episodes of the recompute() call
C15_Witness ==
    /\ Len(calls) = 2
    /\ calls[1].op = "ingest" /\ calls[1].pc = "done"
    /\ calls[2].op = "recompute" /\ calls[2].pc = "done"
    /\ Len(calls[1].returned) = 1
    /\ Len(calls[2].returned) = 2
    /\ \E k \in DOMAIN stored :
          /\ k + 2 \in DOMAIN stored
          /\ stored[k] = calls[2].returned[1]
          /\ stored[k + 1] = calls[1].returned[1]
          /\ stored[k + 2] = calls[2].returned[2]

\* C16: every stored Episode was made by exactly one call, of events of the
\* batch of that call only; so no Episode of an ingestion has events of two
\* ingested batches, whatever keys they share.
C16_EpisodesWithinOneCall ==
    \A k \in DOMAIN stored :
        /\ Cardinality({c \in DOMAIN AllCalls :
                stored[k] \in Range(AllCalls[c].newEpisodes)}) = 1
        /\ \A c \in DOMAIN AllCalls :
              stored[k] \in Range(AllCalls[c].newEpisodes) =>
                  Range(stored[k].events) \subseteq IdsOf(AllCalls[c].batch)

\* two ingestions with an event of trace t1 each have returned, and the two
\* events are in two stored Episodes
C16_Witness ==
    /\ pc = "done"
    /\ Len(calls) >= 1
    /\ calls[1].op = "ingest" /\ calls[1].pc = "done"
    /\ \E i \in DOMAIN batch, j \in DOMAIN calls[1].batch :
          /\ batch[i].trace_id = "t1"
          /\ calls[1].batch[j].trace_id = "t1"
          /\ \E k, l \in DOMAIN stored :
                /\ k # l
                /\ batch[i].id \in Range(stored[k].events)
                /\ calls[1].batch[j].id \in Range(stored[l].events)

\* C18: a call that has returned has returned one Episode for each of its
\* final groups, in the order of the groups, and the stored Episodes that
\* are Episodes of the call are the returned ones, each once, in the order
\* they were returned in.
C18_OneEpisodePerGroupInOrder ==
    \A c \in DOMAIN AllCalls :
        AllCalls[c].pc = "done" =>
            LET result == AllCalls[c].returned
                groups == AllCalls[c].eventGroups
                OfCall(episode) == episode \in Range(result)
            IN  /\ Len(result) = Len(groups)
                /\ \A k \in DOMAIN result :
                      Range(result[k].events) = IdsOf(groups[k].events)
                /\ SelectSeq(stored, OfCall) = result

\* the first call has returned three Episodes
C18_Witness ==
    /\ pc = "done"
    /\ Len(returned) = 3
    /\ Len(eventGroups) = 3
    /\ stored = returned

\* C19: the ids of the stored Episodes, and of the Episodes of every call,
\* are pairwise distinct.
C19_EpisodeIdsDistinct ==
    /\ \A k, l \in DOMAIN stored : stored[k].id = stored[l].id => k = l
    /\ \A c, d \in DOMAIN AllCalls :
          \A k \in DOMAIN AllCalls[c].newEpisodes,
             l \in DOMAIN AllCalls[d].newEpisodes :
              AllCalls[c].newEpisodes[k].id = AllCalls[d].newEpisodes[l].id
                  => (c = d /\ k = l)

\* the Episodes of two ingestions and of a recompute() call over the events
\* of both are stored
C19_Witness ==
    /\ pc = "done"
    /\ Len(calls) = 2
    /\ calls[1].op = "ingest" /\ calls[1].pc = "done"
    /\ calls[2].op = "recompute" /\ calls[2].pc = "done"
    /\ Len(calls[2].returned) = 2
    /\ Len(stored) = 4

EpisodeOf(narrative) ==
    stored[CHOOSE k \in DOMAIN stored : stored[k].id = narrative.episode_id]

\* C22: every entry of `why` of every generated Narrative is backed by a
\* citation: for each index i of the why list there is a citation with
\* claim_id why-i (counted from 1) whose event_id is the id of an event of
\* the Episode of the Narrative.
C22_EveryWhyCited ==
    \A narrative \in narratives :
        \A i \in DOMAIN narrative.why :
            \E x \in Range(narrative.citations) :
                /\ x.claim_id = "why-" \o ToString(i)
                /\ x.event_id \in Range(EpisodeOf(narrative).events)

\* what is said of the events GitHubAdapter.normalize has made of a payload
\* with a pull request: one event, its kind by action and merged, its
\* pr_number the number of the pull request as a string, its outcome FAILURE
\* exactly when the pull request was closed unmerged, and nothing of a
\* deployment the payload may carry
PREventOf(payload, events) ==
    LET pr == payload.pull_request[1]
        action == payload.action
    IN  /\ Len(events) = 1
        /\ events[1].kind = "PR_MERGED" <=> (action = "closed" /\ pr.merged)
        /\ events[1].kind =
              IF action = "opened" THEN "PR_OPENED"
              ELSE IF action \in {"approved", "review_requested"}
                   THEN "PR_APPROVED"
              ELSE IF action = "closed" /\ pr.merged THEN "PR_MERGED"
              ELSE "CUSTOM"
        /\ events[1].pr_number = ToString(pr.number)
        /\ events[1].outcome = "FAILURE" <=> (action = "closed" /\ ~pr.merged)
        /\ events[1].outcome \in {"FAILURE", "SUCCESS"}
        /\ events[1].deployment_id = Absent

\* the calls made for the webhooks of GitHub
GithubCalls ==
    {c \in DOMAIN calls :
        calls[c].op = "webhook" /\ calls[c].request.adapter = "github"}

\* C23 as stated: for every payload that has pull_request and action the
\* adapter has returned exactly one event, of the kind, pr_number and outcome
\* the pull request gives it, also when the payload carries a deployment.
C23_PullRequestEvent ==
    \A c \in GithubCalls :
        LET payload == calls[c].request.payload
        IN  (payload.pull_request # <<>> /\ payload.action # Absent)
                => PREventOf(payload, calls[c].batch)

\* C23 amended: the same for every payload that has pull_request and an
\* action that is not the empty string.
C23_PullRequestEventOfNonEmptyAction ==
    \A c \in GithubCalls :
        LET payload == calls[c].request.payload
        IN  (payload.pull_request # <<>> /\ payload.action \notin {Absent, ""})
                => PREventOf(payload, calls[c].batch)

\* the webhook of a closed, unmerged pull request that also carries a
\* deployment and commits has been made one event with outcome FAILURE, and
\* the call of correlate() for it has returned one Episode
C23_Witness ==
    \E c \in GithubCalls :
        LET payload == calls[c].request.payload
        IN  /\ payload.pull_request # <<>> /\ payload.action = "closed"
            /\ ~payload.pull_request[1].merged
            /\ payload.deployment # <<>> /\ payload.commits # <<>>
            /\ Len(calls[c].batch) = 1
            /\ calls[c].batch[1].outcome = "FAILURE"
            /\ calls[c].pc = "done"
            /\ Len(calls[c].returned) = 1

\* both events have the field and the two values are equal
BothHaveSame(a, b) == a # Absent /\ b # Absent /\ a = b

\* C24: two absent correlation fields never count as the same value: in
\* every returned Episode a CAUSES edge links a PR_MERGED and a DEPLOYMENT
\* event that both have a commit_sha, the two equal; a TRIGGERS edge from a
\* DEPLOYMENT to a TRACE event links events that both have a deployment_id,
\* the two equal; and a FOLLOWS edge between two PR_ events that the rule of
\* the same target within five minutes does not give links events that both
\* have a pr_number, the two equal.
C24_AbsentFieldsNeverSame ==
    pc = "done" =>
        \A k \in DOMAIN returned :
            LET members == Members(returned[k])
            IN  \A n, m \in DOMAIN members :
                    LET e == members[n]
                        l == members[m]
                        types == EdgeTypes(returned[k], e.id, l.id)
                    IN  n < m =>
                        /\ "CAUSES" \in types
                              => /\ e.kind = "PR_MERGED" /\ l.kind = "DEPLOYMENT"
                                 /\ BothHaveSame(e.commit_sha, l.commit_sha)
                        /\ ("TRIGGERS" \in types /\ e.kind = "DEPLOYMENT")
                              => /\ l.kind = "TRACE"
                                 /\ BothHaveSame(e.deployment_id,
                                                 l.deployment_id)
                        /\ (/\ "FOLLOWS" \in types
                            /\ e.kind \in {"PR_MERGED", "PR_OPENED", "PR_APPROVED"}
                            /\ l.kind \in {"PR_MERGED", "PR_OPENED", "PR_APPROVED"}
                            /\ ~RuleHolds(7, e, l))
                              => BothHaveSame(e.pr_number, l.pr_number)

\* the seed groups as they are when the i-th event of the batch is assigned
SeedsBefore(i) == SeedGroups(SubSeq(batch, 1, i - 1))

\* the seed groups, of those created before the i-th event is assigned, that
\* hold an event sharing a correlation value with it
Matching(i) ==
    {g \in DOMAIN SeedsBefore(i) :
        \E n \in DOMAIN SeedsBefore(i)[g].events :
            SameCorrelationValue(SeedsBefore(i)[g].events[n], batch[i])}

\* the seed group the i-th event is appended to
AssignedTo(i) == SeedIndex(SeedGroups(SubSeq(batch, 1, i)), batch[i].id)

\* the keys of the event in the order of the Key Extractor
OrderedKeys(e) == KeysInOrder(e, {Absent, ""})

\* the seed groups created before the i-th event is assigned that hold an
\* event with the key
Holding(i, key) ==
    {g \in DOMAIN SeedsBefore(i) :
        \E n \in DOMAIN SeedsBefore(i)[g].events :
            key \in Range(OrderedKeys(SeedsBefore(i)[g].events[n]))}

\* C25 as stated: an event that shares correlation keys with events of
\* already created groups is appended to the earliest created of those
\* groups, whichever of its keys is shared.
C25_EarliestMatchingGroup ==
    pc = "done" =>
        \A i \in DOMAIN batch :
            Matching(i) # {} => AssignedTo(i) = Min(Matching(i))

\* C25 amended: an event that shares correlation keys with events of already
\* created groups is appended to the earliest created of the groups that
\* hold the first of its keys, in the order of its key list, that any group
\* holds.
C25_EarliestGroupOfFirstSharedKey ==
    pc = "done" =>
        \A i \in DOMAIN batch :
            Matching(i) # {} =>
                LET keys == OrderedKeys(batch[i])
                    shared == {n \in DOMAIN keys : Holding(i, keys[n]) # {}}
                IN  AssignedTo(i) = Min(Holding(i, keys[Min(shared)]))

\* an event whose second key is held by an earlier created group than any
\* group that holds its first key has been appended to the earliest group
\* that holds its first key
C25_Witness ==
    /\ pc = "done"
    /\ \E i \in DOMAIN batch :
          /\ Len(OrderedKeys(batch[i])) >= 2
          /\ Holding(i, OrderedKeys(batch[i])[1]) # {}
          /\ Holding(i, OrderedKeys(batch[i])[2]) # {}
          /\ Min(Holding(i, OrderedKeys(batch[i])[2]))
                < Min(Holding(i, OrderedKeys(batch[i])[1]))
          /\ AssignedTo(i) = Min(Holding(i, OrderedKeys(batch[i])[1]))

\* two seed groups are related: an event of the one and an event of the
\* other have a correlation value in common
SeedsRelated(seeds, f, g) ==
    \E n \in DOMAIN seeds[f].events, m \in DOMAIN seeds[g].events :
        SameCorrelationValue(seeds[f].events[n], seeds[g].events[m])

\* the seed groups that anchor a final group: a seed group is an anchor
\* when no anchor created before it is related to it
Anchors(seeds) ==
    LET IsAnchor[g \in DOMAIN seeds] ==
            \A f \in 1..(g - 1) : IsAnchor[f] => ~SeedsRelated(seeds, f, g)
    IN  {g \in DOMAIN seeds : IsAnchor[g]}

\* the seed groups an anchor absorbs, itself included: those of which it is
\* the first created anchor related to them
AbsorbedBy(seeds, a) ==
    {a} \cup {g \in (DOMAIN seeds) \ Anchors(seeds) :
                a = Min({f \in Anchors(seeds) : SeedsRelated(seeds, f, g)})}

\* the seed groups are three, the first related to the second and to the
\* third, which are not related to each other
MiddleFirst(seeds) ==
    /\ Len(seeds) = 3
    /\ SeedsRelated(seeds, 1, 2) /\ SeedsRelated(seeds, 1, 3)
    /\ ~SeedsRelated(seeds, 2, 3)

\* the seed groups are three, the first related to the one of the other two
\* that is related to both, and not to the other
EndFirst(seeds) ==
    /\ Len(seeds) = 3
    /\ \E b, c \in {2, 3} :
          /\ b # c
          /\ SeedsRelated(seeds, 1, b) /\ SeedsRelated(seeds, b, c)
          /\ ~SeedsRelated(seeds, 1, c)

\* C26: the merge is one pass over the seed groups in creation order: the
\* returned Episodes are, in order, those of the anchors, each of the events
\* of the seed groups its anchor absorbs, which are the not yet absorbed
\* groups related to the anchor group itself; every seed group is in
\* exactly one of them.  So of three seed groups in a chain all are one
\* Episode when the middle one was created first, and the far end is an
\* Episode apart when an end was created first.
C26_MergeIsOnePass ==
    pc = "done" =>
        LET seeds == SeedGroups(batch)
            anchors == Anchors(seeds)
            Ids(g) == {seeds[g].events[n].id : n \in DOMAIN seeds[g].events}
        IN  /\ Len(returned) = Cardinality(anchors)
            /\ \A k \in DOMAIN returned :
                  \E a \in anchors :
                      /\ Cardinality({f \in anchors : f < a}) = k - 1
                      /\ Range(returned[k].events) =
                            UNION {Ids(g) : g \in AbsorbedBy(seeds, a)}
            /\ \A g \in DOMAIN seeds :
                  Cardinality({k \in DOMAIN returned :
                      Ids(g) \subseteq Range(returned[k].events)}) = 1
            /\ MiddleFirst(seeds) => Len(returned) = 1
            /\ EndFirst(seeds) =>
                  /\ Len(returned) = 2
                  /\ \E c \in {2, 3} :
                        /\ ~SeedsRelated(seeds, 1, c)
                        /\ Range(returned[2].events) = Ids(c)

\* three seed groups in a chain, an end created first and the middle one
\* last, have been made two Episodes
C26_Witness ==
    /\ pc = "done"
    /\ EndFirst(SeedGroups(batch))
    /\ ~SeedsRelated(SeedGroups(batch), 1, 2)
    /\ Len(returned) = 2
    /\ Len(returned[2].events) = 1

\* the events of a batch in the opposite order
Reversed(events) == [i \in DOMAIN events |-> events[Len(events) + 1 - i]]

\* the partition of the events into Episodes: the sets of the ids of the
\* events of the Episodes
PartitionOf(episodes) == {Range(episodes[k].events) : k \in DOMAIN episodes}

\* C27: the grouping depends on the order of the batch: for a batch whose
\* seed groups are three in a chain with an end created first, correlate()
\* partitions the events in another way than it partitions the same events
\* given in the opposite order.
C27_GroupingOrderDependent ==
    (pc = "done" /\ EndFirst(SeedGroups(batch))) =>
        PartitionOf(returned) # PartitionOf(EpisodesOf(Reversed(batch), 0))

\* the batch of an event of a trace, an event of a commit, an event of a
\* deployment and an event of all three has been made two Episodes, and the
\* same events in the opposite order are made one
C27_Witness ==
    /\ pc = "done"
    /\ Len(batch) = 4
    /\ EndFirst(SeedGroups(batch))
    /\ Len(returned) = 2
    /\ Len(EpisodesOf(Reversed(batch), 0)) = 1

\* the Episodes hold every event of the batch in exactly one events list and
\* exactly once there, and no events list is empty
Partitions(episodes, events) ==
    /\ \A i \in DOMAIN events :
          Cardinality({<<k, n>> \in (DOMAIN episodes) \X (1..Len(events)) :
                          /\ n <= Len(episodes[k].events)
                          /\ episodes[k].events[n] = events[i].id}) = 1
    /\ \A k \in DOMAIN episodes :
          /\ episodes[k].events # <<>>
          /\ Len(episodes[k].events) <= Len(events)
          /\ Range(episodes[k].events)
                \subseteq {events[i].id : i \in DOMAIN events}

\* the calls of correlate() that have returned
ReturnedCalls == {c \in DOMAIN calls : calls[c].pc = "done"}

\* C28: the Episodes returned by one correlate() call partition its batch:
\* every event id of the batch is in the events list of exactly one returned
\* Episode and exactly once there, and no Episode has an empty events list;
\* correlate() on an empty batch returns no Episode, and no step of it writes
\* to the storage.
C28_EpisodesPartitionBatch ==
    /\ [](/\ pc = "done" => Partitions(returned, batch)
          /\ (pc = "done" /\ batch = <<>>) => returned = <<>>
          /\ \A c \in ReturnedCalls :
                /\ Partitions(calls[c].newEpisodes, calls[c].batch)
                /\ calls[c].batch = <<>> => calls[c].newEpisodes = <<>>)
    /\ [][/\ (batch = <<>> /\ (pc' # pc \/ pos' # pos)) =>
                (stored' = stored /\ nextId' = nextId)
          /\ \A c \in DOMAIN calls :
                (calls[c].batch = <<>> /\ calls'[c] # calls[c]) =>
                    (stored' = stored /\ nextId' = nextId)]_vars

\* a batch of three events has been returned as two Episodes, one of them of
\* two events
C28_Witness ==
    /\ pc = "done"
    /\ Len(batch) = 3
    /\ Len(returned) = 2
    /\ \E k \in DOMAIN returned : Len(returned[k].events) = 2

\* correlate() has returned from an empty batch
EmptyBatchReturned ==
    \/ pc = "done" /\ batch = <<>>
    \/ \E c \in ReturnedCalls : calls[c].batch = <<>>

\* the place of the event in Episode.events, 0 if it is not a member
PlaceIn(episode, id) ==
    IF \E n \in DOMAIN episode.events : episode.events[n] = id
    THEN CHOOSE n \in DOMAIN episode.events : episode.events[n] = id
    ELSE 0

\* the ids reached from the ids of `set` along at most `steps` edges
RECURSIVE ReachedFrom(_, _, _)
ReachedFrom(edges, set, steps) ==
    IF steps = 0 THEN {}
    ELSE LET next == {edges[x].to : x \in {y \in DOMAIN edges :
                                              edges[y].from \in set}}
         IN  next \cup ReachedFrom(edges, next, steps - 1)

\* C29: every edge of the graph of a returned Episode goes from a member
\* event to a member event that comes strictly later in Episode.events, so
\* the time of its source is not after the time of its target as strings;
\* the graph has no self-loop, never both (a,b) and (b,a), no cycle, and at
\* most n(n-1)/2 edges for n events.
C29_EdgesGoForward ==
    pc = "done" =>
        \A k \in DOMAIN returned :
            LET episode == returned[k]
                edges == episode.graph.edges
                n == Len(episode.events)
            IN  /\ \A x \in DOMAIN edges :
                      /\ PlaceIn(episode, edges[x].from) > 0
                      /\ PlaceIn(episode, edges[x].from)
                            < PlaceIn(episode, edges[x].to)
                      /\ localeCompare(EventById(edges[x].from).time,
                                       EventById(edges[x].to).time) <= 0
                      /\ edges[x].from # edges[x].to
                      /\ \A y \in DOMAIN edges :
                            ~(/\ edges[y].from = edges[x].to
                              /\ edges[y].to = edges[x].from)
                      /\ edges[x].from
                            \notin ReachedFrom(edges, {edges[x].from}, n)
                /\ 2 * Len(edges) <= n * (n - 1)

\* an Episode of three events of more than one time with an edge for every
\* pair of them has been returned
C29_Witness ==
    /\ pc = "done"
    /\ \E k \in DOMAIN returned :
          /\ Len(returned[k].events) = 3
          /\ Len(returned[k].graph.edges) = 3
          /\ returned[k].start_time # returned[k].end_time

\* the ids of the events persisted in the storage
SavedIds == {savedEvents[i].id : i \in DOMAIN savedEvents}

\* C30: whatever requests have been handled, every event id listed in a
\* persisted Episode is the id of an event persisted in the storage; and the
\* step that rejects a request with 400 for an invalid event persists no
\* event and no Episode.
C30_EpisodesOfSavedEvents ==
    /\ [](\A k \in DOMAIN stored : Range(stored[k].events) \subseteq SavedIds)
    /\ [][(/\ Len(calls') = Len(calls) + 1
           /\ calls'[Len(calls')].pc = "rejected") =>
              (savedEvents' = savedEvents /\ stored' = stored)]_vars

\* an ingestion after the first has been saved and correlated, and the
\* Episode of its event persisted
C30_Witness ==
    /\ Len(savedEvents) > Len(batch)
    /\ \E c \in DOMAIN calls :
          /\ calls[c].op = "ingest"
          /\ calls[c].pc = "done"
          /\ \E k \in DOMAIN stored :
                savedEvents[Len(savedEvents)].id \in Range(stored[k].events)

\* a request has been answered in the way named
AnsweredAs(op, answer) ==
    \E c \in DOMAIN calls : calls[c].op = op /\ calls[c].pc = answer

====
